---- MODULE Spec2Model ----
(***************************************************************************)
(* Development-mode live-update engine of shuliangfu/server:               *)
(*   - ModuleGraphManager   (src/src/dev/module-graph.ts)                  *)
(*   - DevTools watch loop  (src/src/dev/dev-tools.ts)                     *)
(*   - WebSocketManager     (src/src/dev/dev-tools.ts)                     *)
(*   - HMRPerformanceMonitor (src/src/dev/performance-monitor.ts)          *)
(*   - HMRClient            (src/src/dev/hmr-browser.ts)                   *)
(*                                                                         *)
(* JavaScript strings are modelled as sequences of one-character strings,  *)
(* so that "" is <<>> and substring / prefix tests are computed.           *)
(* A JavaScript Map is a function whose DOMAIN is the key set; a Set is a  *)
(* set (iteration order is not observable in the properties checked).      *)
(***************************************************************************)
EXTENDS Integers, Sequences, FiniteSets, TLC

VARIABLES
    \* ---- ModuleGraphManager.graph ----
    dependencies,   \* Map<moduleId, Set<moduleId>>  forward edges
    dependents,     \* Map<moduleId, Set<moduleId>>  reverse edges
    moduleToFile,   \* Map<moduleId, filePath>
    fileToModule,   \* Map<filePath, moduleId>
    graphOp,        \* the last ModuleGraphManager call and its return value
    graphAddOnly    \* TRUE while the graph was built by addModule calls only

graphVars == <<dependencies, dependents, moduleToFile, fileToModule,
               graphOp, graphAddOnly>>

VARIABLES
    \* ---- DevTools (server side) ----
    hasBuilder,     \* config.builder is configured
    rebuildTimers,  \* Map<path, timer handle>
    liveTimers,     \* the runtime's pending setTimeout callbacks
    nextTimerId,    \* next handle returned by setTimeout
    inflight,       \* rebuild() promises not yet settled
    broadcasts,     \* messages handed to wsManager.broadcast, in order
    watchEvents,    \* number of watch events consumed so far
    \* ---- observation of the watch loop ----
    eventAge,       \* per path: ms since its last accepted event (capped)
    eventCount,     \* per path: accepted events
    burstCount,     \* per path: bursts (an event >= DebounceMs after the
                    \*           previous one starts a new burst)
    rebuildCount,   \* per path: rebuild({changedPath}) invocations
    settled         \* the rebuilds that settled, in order, with their outcome

watchVars == <<hasBuilder, rebuildTimers, liveTimers, nextTimerId, inflight,
               broadcasts, watchEvents, eventAge, eventCount, burstCount,
               rebuildCount, settled>>

VARIABLES
    \* ---- HMRClient: connection (browser side) ----
    ws,                 \* this.ws: "null", or the socket's state
    reconnectTimer,     \* this.reconnectTimer: 0 for null, else a handle
    reconnectAttempts,  \* this.reconnectAttempts
    reconnectDelay,     \* this.reconnectDelay (ms)
    clientTimers,       \* the tab's pending reconnect setTimeout callbacks
    nextClientTimerId,  \* next handle returned by setTimeout in the tab
    connectionStatus,   \* what the status indicator shows
    \* ---- observation of the connection ----
    connectCalls,       \* connect() invocations so far
    viaTimer,           \* the last connect() was made by a reconnect timer
    lossStreak,         \* connection losses since the last open or the
                        \*   last connect() made from outside the client
    failedStreak        \* reconnection attempts that failed since then

connVars == <<ws, reconnectTimer, reconnectAttempts, reconnectDelay,
              clientTimers, nextClientTimerId, connectionStatus,
              connectCalls, viaTimer, lossStreak, failedStreak>>

VARIABLES
    routeCall,          \* one isCurrentRoute evaluation: inputs and result
    mergeCall,          \* one mergeUpdates evaluation: batch and result
    inferCall           \* one RouteInferrer evaluation: path and results

pureVars == <<routeCall, mergeCall, inferCall>>

VARIABLES
    \* ---- HMRClient: update queue (browser side) ----
    tab,                \* the page: current path, whether the renderer
                        \*   injected __RENDER_DATA__, which HMR API exists
    updateQueue,        \* this.updateQueue (the queued messages)
    queueTimer,         \* this.queueTimer: 0 for null, else a handle
    batchTimers,        \* the tab's pending batch setTimeout callbacks
    nextBatchTimerId,   \* next handle returned by setTimeout for a batch
    loadingModules,     \* loadUpdatedModules calls not yet settled
    recorded,           \* statusUI counters: updates, successes, failures
    \* ---- observation of the page ----
    inbound,            \* messages delivered by ws.onmessage so far
    reloads,            \* location.reload() calls
    styleUpdates,       \* stylesheet <link> tags rewritten or injected
    hotAccepts,         \* module.hot.accept registrations
    events,             \* custom events dispatched on globalThis
    lastHandled,        \* the last merged update handled and its outcome
    lastInbound,        \* the last message handed to handleMessage
    handledCount        \* merged updates handed to handleMergedUpdate

updVars == <<tab, updateQueue, queueTimer, batchTimers, nextBatchTimerId,
             loadingModules, recorded, inbound, reloads, styleUpdates,
             hotAccepts, events, lastHandled, lastInbound, handledCount>>

VARIABLES
    \* ---- HMRPerformanceMonitor ----
    metrics,            \* this.metrics: the retained samples, oldest first
    currentUpdate,      \* this.currentUpdate: <<>> for null, else <<sample>>
    perfNow,            \* performance.now()
    \* ---- observation of the monitor ----
    closedLog,          \* every sample closed by endUpdate, in closing order
    statsCall           \* the last getStats(): the samples it saw, its result

monVars == <<metrics, currentUpdate, perfNow, closedLog, statsCall>>

VARIABLES
    \* ---- WebSocketManager and DevTools shutdown ----
    connections,        \* this.connections: the sockets in the set
    readyState,         \* readyState of every socket created so far; the
                        \*   n-th socket upgraded is socket n
    heartbeatTimer,     \* this.heartbeatTimer: 0 for null, else a handle
    intervals,          \* the runtime's live setInterval handles
    nextIntervalId,     \* next handle returned by setInterval
    stopped,            \* DevTools.stop() has run (the watcher is closed)
    \* ---- observation of the sockets ----
    heartbeats,         \* heartbeat callbacks run so far
    closeCalls,         \* WebSocketManager.close() calls so far
    lastSend            \* the last broadcast(): the set and states it saw,
                        \*   the sends attempted, thrown and delivered

sockStateVars == <<connections, readyState, heartbeatTimer, intervals,
                   nextIntervalId, stopped, heartbeats, closeCalls>>

sockVars == <<sockStateVars, lastSend>>

VARIABLES
    \* ---- HMRClient: loading updated modules ----
    moduleCache,        \* globalThis.__MODULE_CACHE__: <<>> when the page
                        \*   has none, else <<map>>; 0 in the map: no entry
    moduleBackups,      \* this.moduleBackups
    loading,            \* the running loadUpdatedModules call, at its
                        \*   await: <<>> for none
    loadCalls,          \* loadUpdatedModules calls made so far
    notifications,      \* error notifications appended to the page
    updateHistory       \* this.updateHistory

loadVars == <<moduleCache, moduleBackups, loading, loadCalls, notifications,
              updateHistory>>

VARIABLES
    \* ---- observation of the monitor ----
    recentCall          \* the last getRecentMetrics(count): the samples it
                        \*   saw and its result

VARIABLES
    \* ---- the dev server as the tab's network sees it ----
    serverAccepts       \* the server answers a WebSocket handshake

vars == <<graphVars, watchVars, connVars, pureVars, updVars, monVars,
          sockVars, loadVars, recentCall, serverAccepts>>

\* What a call on one component leaves alone.
nonGraphVars == <<watchVars, connVars, pureVars, updVars,
    monVars, sockVars, loadVars, recentCall, serverAccepts>>

nonWatchVars == <<graphVars, connVars, pureVars, updVars, loadVars,
    recentCall, serverAccepts>>
nonConnVars == <<graphVars, watchVars, pureVars, updVars,
    monVars, sockVars, loadVars, recentCall, serverAccepts>>
nonRouteVars == <<graphVars, watchVars, connVars, mergeCall, inferCall, updVars,
    monVars, sockVars, loadVars, recentCall, serverAccepts>>
nonMergeVars == <<graphVars, watchVars, connVars, routeCall, inferCall, updVars,
    monVars, sockVars, loadVars, recentCall, serverAccepts>>
nonUpdVars == <<graphVars, watchVars, connVars, pureVars,
    monVars, sockVars, loadVars, recentCall, serverAccepts>>
nonInferVars == <<graphVars, watchVars, connVars, routeCall, mergeCall,
    updVars, monVars, sockVars, loadVars, recentCall, serverAccepts>>
nonMonVars == <<graphVars, watchVars, connVars, pureVars, updVars,
    sockVars, loadVars, recentCall, serverAccepts>>
nonLoadVars == <<graphVars, watchVars, connVars, pureVars, monVars,
    sockVars, recentCall, serverAccepts>>

(***************************************************************************)
(* Generic helpers                                                         *)
(***************************************************************************)
Range(s) == {s[i] : i \in DOMAIN s}

NoDuplicates(s) == \A i, j \in DOMAIN s : s[i] = s[j] => i = j

\* JavaScript truthiness of a string: every string but "" is truthy.
Truthy(s) == s # <<>>

EmptyMap == [k \in {} |-> {}]

MapSet(map, k, v) == [x \in DOMAIN map \cup {k} |-> IF x = k THEN v ELSE map[x]]

MapDelete(map, k) == [x \in DOMAIN map \ {k} |-> map[x]]

\* A call that has not returned yet has no result.
NoResult == <<>>

(***************************************************************************)
(* JavaScript string operations on character sequences                     *)
(***************************************************************************)
UpperChars == <<"A", "B", "C", "D", "E", "F", "G", "H", "I", "J", "K", "L", "M",
                "N", "O", "P", "Q", "R", "S", "T", "U", "V", "W", "X", "Y", "Z">>

LowerChars == <<"a", "b", "c", "d", "e", "f", "g", "h", "i", "j", "k", "l", "m",
                "n", "o", "p", "q", "r", "s", "t", "u", "v", "w", "x", "y", "z">>

LowerChar(c) ==
    IF \E i \in DOMAIN UpperChars : UpperChars[i] = c
    THEN LowerChars[CHOOSE i \in DOMAIN UpperChars : UpperChars[i] = c]
    ELSE c

\* The subject of a case-insensitive (/i) regular expression.
ToLower(s) == [i \in DOMAIN s |-> LowerChar(s[i])]

\* s.replace(/<from>/g, <to>) for one-character patterns.
ReplaceAllChar(s, from, to) == [i \in DOMAIN s |-> IF s[i] = from THEN to ELSE s[i]]

\* sub occurs in s starting at index i (1-based).
OccursAt(s, sub, i) ==
    /\ i >= 1
    /\ i + Len(sub) - 1 <= Len(s)
    /\ \A k \in 1..Len(sub) : s[i + k - 1] = sub[k]

StartsWith(s, sub) == OccursAt(s, sub, 1)

EndsWith(s, sub) == OccursAt(s, sub, Len(s) - Len(sub) + 1)

Includes(s, sub) == \E i \in 1..(Len(s) + 1) : OccursAt(s, sub, i)

DropFirst(s, n) == SubSeq(s, n + 1, Len(s))

(***************************************************************************)
(* ModuleGraphManager                                                      *)
(***************************************************************************)
\* Module ids are opaque strings; "" is one of them.
ModuleIds == {<<>>, <<"m", "1">>, <<"m", "2">>}

\* The file a module is normally built from: "m1" comes from "m1.ts".
OwnFile(moduleId) == moduleId \o <<".", "t", "s">>

GraphFiles == {OwnFile(m) : m \in ModuleIds}

\* Longest dependencies array passed to one addModule call.
MaxDepsPerCall == 2

DepArrays == {d \in SUBSET ModuleIds : Cardinality(d) <= MaxDepsPerCall}

\* addModule's loop with `this.graph.dependents.set(dep, dependents)` left out:
\* a dependents set that did not exist yet is never stored.
AddDependentsNoSet(map, moduleId, deps) ==
    [x \in DOMAIN map |->
        IF x \in deps THEN map[x] \cup {moduleId} ELSE map[x]]

\* addModule: the loop over the dependencies array, on the dependents map.
AddDependents(map, moduleId, deps) ==
    [x \in DOMAIN map \cup deps |->
        IF x \in deps
        THEN (IF x \in DOMAIN map THEN map[x] ELSE {}) \cup {moduleId}
        ELSE map[x]]

AddModule(moduleId, filePath, deps) ==
    /\ moduleToFile' = MapSet(moduleToFile, moduleId, filePath)
    /\ fileToModule' = MapSet(fileToModule, filePath, moduleId)
    /\ dependencies' =
          MapSet(dependencies, moduleId,
                 (IF moduleId \in DOMAIN dependencies
                  THEN dependencies[moduleId] ELSE {}) \cup deps)
    /\ dependents' = AddDependents(dependents, moduleId, deps)
    /\ graphOp' = [op |-> "addModule"]
    /\ UNCHANGED graphAddOnly

\* removeModule's loops without the `size === 0` pruning.
StripKeysNoPrune(map, keys, moduleId) ==
    [x \in DOMAIN map |->
        IF x \in keys THEN map[x] \ {moduleId} ELSE map[x]]

\* removeModule's loops: strip moduleId from the set stored under each of
\* `keys`, deleting a set that becomes empty.
StripKeys(map, keys, moduleId) ==
    [x \in {k \in DOMAIN map : ~(k \in keys /\ map[k] \ {moduleId} = {})} |->
        IF x \in keys THEN map[x] \ {moduleId} ELSE map[x]]

RemoveFileEntry(f2m, m2f, moduleId) ==
    IF moduleId \in DOMAIN m2f /\ Truthy(m2f[moduleId])
    THEN MapDelete(f2m, m2f[moduleId])
    ELSE f2m

RemoveModule(moduleId) ==
    LET hasDeps == moduleId \in DOMAIN dependencies
        deps == IF hasDeps THEN dependencies[moduleId] ELSE {}
        dependents1 == IF hasDeps
                       THEN StripKeys(dependents, deps, moduleId)
                       ELSE dependents
        dependencies1 == MapDelete(dependencies, moduleId)
        hasDependents == moduleId \in DOMAIN dependents1
        dpts == IF hasDependents THEN dependents1[moduleId] ELSE {}
    IN  /\ fileToModule' = RemoveFileEntry(fileToModule, moduleToFile, moduleId)
        /\ moduleToFile' = MapDelete(moduleToFile, moduleId)
        /\ dependencies' = IF hasDependents
                           THEN StripKeys(dependencies1, dpts, moduleId)
                           ELSE dependencies1
        /\ dependents' = MapDelete(dependents1, moduleId)
        /\ graphOp' = [op |-> "removeModule", id |-> moduleId]
        /\ graphAddOnly' = FALSE

GetModuleId(f2m, filePath) ==
    IF filePath \in DOMAIN f2m THEN <<f2m[filePath]>> ELSE <<>>

RECURSIVE CollectDependents(_, _, _)
RECURSIVE CollectEach(_, _, _)
\* collectDependents(id): `acc` is the affected set in insertion order; the
\* visited set holds the same ids.
CollectDependents(dpts, id, acc) ==
    IF id \in Range(acc)
    THEN acc
    ELSE CollectEach(dpts, IF id \in DOMAIN dpts THEN dpts[id] ELSE {},
                     Append(acc, id))

CollectEach(dpts, todo, acc) ==
    IF todo = {}
    THEN acc
    ELSE LET d == CHOOSE x \in todo : TRUE
         IN  CollectEach(dpts, todo \ {d}, CollectDependents(dpts, d, acc))

\* getAffectedModules: `!moduleId` holds for undefined and for "".
GetAffectedModules(f2m, dpts, changedFile) ==
    LET found == GetModuleId(f2m, changedFile)
    IN  IF found = <<>> \/ ~Truthy(found[1])
        THEN <<>>
        ELSE CollectDependents(dpts, found[1], <<>>)

GetAffected(changedFile) ==
    /\ graphOp' = [op |-> "getAffectedModules", file |-> changedFile,
                   result |-> GetAffectedModules(fileToModule, dependents,
                                                 changedFile)]
    /\ UNCHANGED <<dependencies, dependents, moduleToFile, fileToModule,
                   graphAddOnly>>

Clear ==
    /\ dependencies' = EmptyMap
    /\ dependents' = EmptyMap
    /\ moduleToFile' = EmptyMap
    /\ fileToModule' = EmptyMap
    /\ graphOp' = [op |-> "clear"]
    /\ graphAddOnly' = TRUE

GraphInit ==
    /\ dependencies = EmptyMap
    /\ dependents = EmptyMap
    /\ moduleToFile = EmptyMap
    /\ fileToModule = EmptyMap
    /\ graphOp = [op |-> "new"]
    /\ graphAddOnly = TRUE

\* A caller that registers every module under its own file.
DoAddModule ==
    /\ \E m \in ModuleIds, deps \in DepArrays :
          AddModule(m, OwnFile(m), deps)
    /\ UNCHANGED nonGraphVars

\* A caller that registers and re-registers modules under any path,
\* without dependencies.
DoRegisterModule ==
    /\ \E m \in ModuleIds, f \in GraphFiles : AddModule(m, f, {})
    /\ UNCHANGED nonGraphVars

DoRemoveModule ==
    /\ \E m \in ModuleIds : RemoveModule(m)
    /\ UNCHANGED nonGraphVars

DoGetAffected ==
    /\ \E f \in GraphFiles : GetAffected(f)
    /\ UNCHANGED nonGraphVars

DoClear ==
    /\ Clear
    /\ UNCHANGED nonGraphVars

GraphNext ==
    \/ DoAddModule
    \/ DoRemoveModule
    \/ DoGetAffected
    \/ DoClear

RegisterNext ==
    \/ DoRegisterModule
    \/ DoRemoveModule
    \/ DoGetAffected
    \/ DoClear

(***************************************************************************)
(* RouteInferrer: file classification  (src/src/dev/route-inference.ts)    *)
(***************************************************************************)
\* /<dir>.*<suffix>$/ : one of `dirs` occurs in s and one of `suffixes` ends
\* s at or after the end of that occurrence.
DirThenSuffix(s, dirs, suffixes) ==
    \E d \in dirs, x \in suffixes :
        /\ EndsWith(s, x)
        /\ \E i \in 1..Len(s) :
              OccursAt(s, d, i) /\ Len(s) - Len(x) + 1 >= i + Len(d)

\* \.(tsx?|jsx?)
ScriptExts == {<<".", "t", "s">>, <<".", "t", "s", "x">>, <<".", "j", "s">>, <<".", "j", "s", "x">>}

\* normalizePath with the default (empty) basePath.
NormalizePath(filePath) ==
    LET slashed == ReplaceAllChar(filePath, "\\", "/")
    IN  IF StartsWith(slashed, <<"/">>) THEN DropFirst(slashed, 1) ELSE slashed

IsLayoutFile(filePath) ==
    LET n == ToLower(NormalizePath(filePath))
    IN  \/ \E e \in ScriptExts : EndsWith(n, <<"l", "a", "y", "o", "u", "t">> \o e)
        \/ \E e \in ScriptExts : EndsWith(n, <<"_", "l", "a", "y", "o", "u", "t">> \o e)
        \/ DirThenSuffix(n, {<<"a", "p", "p", "/">>}, {<<"/", "l", "a", "y", "o", "u", "t">> \o e : e \in ScriptExts})

IsPageFile(filePath) ==
    LET n == ToLower(NormalizePath(filePath))
    IN  \/ \E e \in ScriptExts : EndsWith(n, <<"p", "a", "g", "e">> \o e)
        \/ /\ DirThenSuffix(n, {<<"p", "a", "g", "e", "/">>, <<"p", "a", "g", "e", "s", "/">>, <<"r", "o", "u", "t", "e", "/">>, <<"r", "o", "u", "t", "e", "s", "/">>}, ScriptExts)
           /\ ~IsLayoutFile(filePath)

\* isComponentFile without the test of isPageFile.
IsComponentFileNoPageTest(filePath) ==
    LET n == ToLower(NormalizePath(filePath))
    IN  /\ DirThenSuffix(n, {<<"c", "o", "m", "p", "o", "n", "e", "n", "t", "/">>, <<"c", "o", "m", "p", "o", "n", "e", "n", "t", "s", "/">>}, ScriptExts)
        /\ ~IsLayoutFile(filePath)

IsComponentFile(filePath) ==
    LET n == ToLower(NormalizePath(filePath))
    IN  /\ DirThenSuffix(n, {<<"c", "o", "m", "p", "o", "n", "e", "n", "t", "/">>, <<"c", "o", "m", "p", "o", "n", "e", "n", "t", "s", "/">>}, ScriptExts)
        /\ ~IsLayoutFile(filePath)
        /\ ~IsPageFile(filePath)

(***************************************************************************)
(* RouteInferrer: route inference  (src/src/dev/route-inference.ts)        *)
(***************************************************************************)
\* What inferRoute returns for a path no rule matches (undefined); a route
\* it does return is never empty.
NoRoute == <<>>

\* \w
WordChars == Range(UpperChars) \cup Range(LowerChars) \cup
             {"0", "1", "2", "3", "4", "5", "6", "7", "8", "9", "_"}

\* DEFAULT_ROUTE_PATTERNS, in order: the directory names one of which starts
\* the match, and what stands between the captured part and the extension.
DefaultRoutePatterns ==
    <<[dirs |-> {<<"p", "a", "g", "e", "s", "/">>}, tail |-> <<>>],
      [dirs |-> {<<"r", "o", "u", "t", "e", "s", "/">>}, tail |-> <<>>],
      [dirs |-> {<<"a", "p", "p", "/">>}, tail |-> <<"/", "p", "a", "g", "e">>],
      [dirs |-> {<<"a", "p", "p", "/">>}, tail |-> <<"/", "l", "a", "y", "o", "u", "t">>],
      [dirs |-> {<<"c", "o", "m", "p", "o", "n", "e", "n", "t", "/">>, <<"c", "o", "m", "p", "o", "n", "e", "n", "t", "s", "/">>,
                 <<"p", "a", "g", "e", "/">>, <<"p", "a", "g", "e", "s", "/">>,
                 <<"r", "o", "u", "t", "e", "/">>, <<"r", "o", "u", "t", "e", "s", "/">>},
       tail |-> <<>>]>>

\* Where path.match(filePattern) starts: the leftmost index at which one of
\* the directory names occurs with room for the rest of the pattern; 0 when
\* the pattern does not match.
MatchStart(path, pattern) ==
    LET lower == ToLower(path)
        ends == {pattern.tail \o e : e \in ScriptExts}
        starts == {i \in 1..Len(path) :
                      \E d \in pattern.dirs, x \in ends :
                          /\ OccursAt(lower, d, i)
                          /\ EndsWith(lower, x)
                          /\ i + Len(d) <= Len(path) - Len(x) + 1}
    IN  IF starts = {} THEN 0
        ELSE CHOOSE i \in starts : \A j \in starts : i <= j

\* match[1] of path.match(filePattern)
Captured(path, pattern) ==
    LET lower == ToLower(path)
        i == MatchStart(path, pattern)
        d == CHOOSE d \in pattern.dirs : OccursAt(lower, d, i)
        x == CHOOSE x \in {pattern.tail \o e : e \in ScriptExts} :
                 EndsWith(lower, x)
    IN  SubSeq(path, i + Len(d), Len(path) - Len(x))

\* The rewriting rules of processDynamicRoute: what opens and closes the
\* bracket, whether the text between is \w+ or [^)]+, and what replaces it.
GroupRule == [open |-> <<"(">>, close |-> <<")", "/">>, word |-> FALSE,
              before |-> <<>>, keep |-> FALSE, after |-> <<>>]

OptionalCatchAllRule == [open |-> <<"[", "[", ".", ".", ".">>, close |-> <<"]", "]">>, word |-> TRUE,
                         before |-> <<"*">>, keep |-> FALSE, after |-> <<>>]

OptionalParamRule == [open |-> <<"[", "[">>, close |-> <<"]", "]">>, word |-> TRUE,
                      before |-> <<":">>, keep |-> TRUE, after |-> <<"?">>]

CatchAllRule == [open |-> <<"[", ".", ".", ".">>, close |-> <<"]">>, word |-> TRUE,
                 before |-> <<"*">>, keep |-> FALSE, after |-> <<>>]

ParamRule == [open |-> <<"[">>, close |-> <<"]">>, word |-> TRUE,
              before |-> <<":">>, keep |-> TRUE, after |-> <<>>]

\* The index after the text the rule's expression matches at index i, or 0.
\* The text between the brackets is the longest run of its class.
MatchEnd(s, i, rule) ==
    IF ~OccursAt(s, rule.open, i) THEN 0
    ELSE LET from == i + Len(rule.open)
             InClass(c) == IF rule.word THEN c \in WordChars ELSE c # ")"
             stops == {j \in from..(Len(s) + 1) :
                          j = Len(s) + 1 \/ ~InClass(s[j])}
             stop == CHOOSE j \in stops : \A k \in stops : j <= k
         IN  IF stop > from /\ OccursAt(s, rule.close, stop)
             THEN stop + Len(rule.close) ELSE 0

RECURSIVE ReplaceFrom(_, _, _)
\* s.replace(/<rule>/g, <replacement>) from index i on.
ReplaceFrom(s, i, rule) ==
    IF i > Len(s) THEN <<>>
    ELSE LET end == MatchEnd(s, i, rule)
         IN  IF end = 0
             THEN <<s[i]>> \o ReplaceFrom(s, i + 1, rule)
             ELSE LET body == SubSeq(s, i + Len(rule.open),
                                     end - Len(rule.close) - 1)
                  IN  rule.before \o (IF rule.keep THEN body ELSE <<>>)
                          \o rule.after \o ReplaceFrom(s, end, rule)

ReplaceRule(s, rule) == ReplaceFrom(s, 1, rule)

\* processDynamicRoute with [x] rewritten before [[x]].
ProcessDynamicRouteParamFirst(route) ==
    ReplaceRule(ReplaceRule(ReplaceRule(ReplaceRule(ReplaceRule(route,
        GroupRule), OptionalCatchAllRule), ParamRule), CatchAllRule),
        OptionalParamRule)

\* processDynamicRoute(route)
ProcessDynamicRoute(route) ==
    ReplaceRule(ReplaceRule(ReplaceRule(ReplaceRule(ReplaceRule(route,
        GroupRule), OptionalCatchAllRule), OptionalParamRule), CatchAllRule),
        ParamRule)

RECURSIVE CollapseSlashes(_)
\* route.replace(/\/+/g, "/")
CollapseSlashes(s) ==
    IF Len(s) < 2 THEN s
    ELSE IF s[1] = "/" /\ s[2] = "/" THEN CollapseSlashes(Tail(s))
    ELSE <<s[1]>> \o CollapseSlashes(Tail(s))

\* normalizeRoute of the inferrer.
InferrerNormalizeRoute(route) ==
    LET noIndex == IF EndsWith(ToLower(route), <<"/", "i", "n", "d", "e", "x">>)
                   THEN SubSeq(route, 1, Len(route) - 5)
                   ELSE route
        rooted == IF StartsWith(noIndex, <<"/">>) THEN noIndex
                  ELSE <<"/">> \o noIndex
        trimmed == IF rooted # <<"/">> /\ EndsWith(rooted, <<"/">>)
                   THEN SubSeq(rooted, 1, Len(rooted) - 1)
                   ELSE rooted
    IN  CollapseSlashes(trimmed)

RECURSIVE InferWith(_, _)
\* The loop of inferRoute over the patterns still to try.
InferWith(path, patterns) ==
    IF patterns = <<>> THEN NoRoute
    ELSE IF MatchStart(path, patterns[1]) # 0
    THEN InferrerNormalizeRoute(
             ProcessDynamicRoute(<<"/">> \o Captured(path, patterns[1])))
    ELSE InferWith(path, Tail(patterns))

\* inferRoute(filePath)
InferRoute(filePath) == InferWith(NormalizePath(filePath), DefaultRoutePatterns)

(***************************************************************************)
(* DevTools: change classification  (src/src/dev/dev-tools.ts)             *)
(***************************************************************************)
ConfigFileSuffixes ==
    {<<"d", "e", "n", "o", ".", "j", "s", "o", "n">>,
     <<"p", "a", "c", "k", "a", "g", "e", ".", "j", "s", "o", "n">>,
     <<"t", "s", "c", "o", "n", "f", "i", "g", ".", "j", "s", "o", "n">>}
    \cup {<<".", "c", "o", "n", "f", "i", "g">> \o e : e \in {<<".", "t", "s">>, <<".", "j", "s">>, <<".", "j", "s", "o", "n">>}}

ConfigStems == {<<"v", "i", "t", "e">>, <<"w", "e", "b", "p", "a", "c", "k">>, <<"r", "o", "l", "l", "u", "p">>, <<"e", "s", "b", "u", "i", "l", "d">>, <<"t", "a", "i", "l", "w", "i", "n", "d">>}

IsConfigFile(filePath) ==
    LET n == ToLower(filePath)
    IN  \/ \E x \in ConfigFileSuffixes : EndsWith(n, x)
        \/ \E st \in ConfigStems, e \in {<<".", "t", "s">>, <<".", "j", "s">>} :
              EndsWith(n, st \o <<".", "c", "o", "n", "f", "i", "g">> \o e)

\* /\.(ts|js|mjs|tsx|jsx)$/
ModuleExts == {<<".", "t", "s">>, <<".", "j", "s">>, <<".", "m", "j", "s">>, <<".", "t", "s", "x">>, <<".", "j", "s", "x">>}

DetermineUpdateType(filePath) ==
    IF IsConfigFile(filePath) THEN "config-update"
    ELSE IF EndsWith(filePath, <<".", "c", "s", "s">>) THEN "css-update"
    ELSE IF IsLayoutFile(filePath) THEN "layout-update"
    ELSE IF IsPageFile(filePath) THEN "component-update"
    ELSE IF IsComponentFile(filePath) THEN "component-update"
    ELSE IF \E e \in ModuleExts : EndsWith(filePath, e) THEN "module-update"
    ELSE "update"

(***************************************************************************)
(* HMRPerformanceMonitor  (src/src/dev/performance-monitor.ts)             *)
(***************************************************************************)
maxMetrics == 100

\* this.metrics.shift() that drops the newest sample instead of the oldest.
EvictNewest(samples) ==
    IF Len(samples) > maxMetrics
    THEN SubSeq(samples, 1, Len(samples) - 1) ELSE samples

\* if (this.metrics.length > this.maxMetrics) this.metrics.shift()
EvictOldest(samples) ==
    IF Len(samples) > maxMetrics THEN Tail(samples) ELSE samples

\* startUpdate(filePaths, updateType)
StartUpdate(filePaths, updateType) ==
    /\ currentUpdate' = <<[startTime |-> perfNow,
                           moduleCount |-> Len(filePaths),
                           filePaths |-> filePaths,
                           updateType |-> updateType,
                           success |-> FALSE]>>
    /\ UNCHANGED <<metrics, perfNow, closedLog, statsCall>>

\* The sample endUpdate(success, error) closes, `elapsed` ms after the
\* clock was last read.
ClosedSample(success, error, elapsed) ==
    [startTime |-> currentUpdate[1].startTime,
     moduleCount |-> currentUpdate[1].moduleCount,
     filePaths |-> currentUpdate[1].filePaths,
     updateType |-> currentUpdate[1].updateType,
     endTime |-> perfNow + elapsed,
     duration |-> (perfNow + elapsed) - currentUpdate[1].startTime,
     success |-> success,
     error |-> error]

\* endUpdate(success, error)
EndUpdate(success, error, elapsed) ==
    IF currentUpdate = <<>>
    THEN UNCHANGED <<metrics, currentUpdate, perfNow, closedLog, statsCall>>
    ELSE LET sample == ClosedSample(success, error, elapsed)
         IN  /\ perfNow' = perfNow + elapsed
             /\ metrics' = EvictOldest(Append(metrics, sample))
             /\ closedLog' = Append(closedLog, sample)
             /\ currentUpdate' = <<>>
             /\ UNCHANGED statsCall

RECURSIVE SumSeq(_)
SumSeq(numbers) ==
    IF numbers = <<>> THEN 0 ELSE numbers[1] + SumSeq(Tail(numbers))

MaxOf(numbers) == CHOOSE x \in Range(numbers) : \A y \in Range(numbers) : y <= x

MinOf(numbers) == CHOOSE x \in Range(numbers) : \A y \in Range(numbers) : x <= y

\* m.success && m.duration : a duration of 0 is falsy.
CountsAsSuccessful(m) == m.success /\ m.duration # 0

\* getStats(); averageDuration is the fraction num / den.
GetStats(samples) ==
    LET successfulMetrics == SelectSeq(samples, CountsAsSuccessful)
        durations == [i \in DOMAIN successfulMetrics |->
                         successfulMetrics[i].duration]
    IN  [totalUpdates |-> Len(samples),
         successfulUpdates |-> Len(successfulMetrics),
         failedUpdates |-> Len(samples) - Len(successfulMetrics),
         averageDuration |-> IF Len(durations) > 0
                             THEN [num |-> SumSeq(durations),
                                   den |-> Len(durations)]
                             ELSE [num |-> 0, den |-> 1],
         maxDuration |-> IF Len(durations) > 0 THEN MaxOf(durations) ELSE 0,
         minDuration |-> IF Len(durations) > 0 THEN MinOf(durations) ELSE 0,
         totalDuration |-> SumSeq(durations)]

CallGetStats ==
    /\ statsCall' = <<[of |-> metrics, stats |-> GetStats(metrics)]>>
    /\ UNCHANGED <<metrics, currentUpdate, perfNow, closedLog>>

\* array.slice(start): a negative start counts from the end, and -0 is 0.
SliceFrom(array, start) ==
    LET from == IF start < 0
                THEN (IF Len(array) + start > 0 THEN Len(array) + start ELSE 0)
                ELSE (IF start < Len(array) THEN start ELSE Len(array))
    IN  SubSeq(array, from + 1, Len(array))

\* array.reverse()
ReverseSeq(array) ==
    [i \in 1..Len(array) |-> array[Len(array) - i + 1]]

\* getRecentMetrics(count)
GetRecentMetrics(samples, count) == ReverseSeq(SliceFrom(samples, 0 - count))

CallGetRecentMetrics(count) ==
    /\ recentCall' = <<[of |-> metrics, count |-> count,
                        result |-> GetRecentMetrics(metrics, count)]>>
    /\ UNCHANGED monVars

MonitorInit ==
    /\ metrics = <<>>
    /\ currentUpdate = <<>>
    /\ perfNow = 0
    /\ closedLog = <<>>
    /\ statsCall = NoResult
    /\ recentCall = NoResult

\* Samples closed in a run that draws every outcome and duration freely.
MaxSamples == 3

\* Milliseconds that can pass between startUpdate and endUpdate.
ElapsedSteps == {0, 1, 2}

MonitorPaths == {<<"f", "1">>, <<"f", "2">>}

DoStartUpdate ==
    /\ Len(closedLog) < MaxSamples
    /\ \E p \in MonitorPaths : StartUpdate(<<p>>, "update")
    /\ UNCHANGED nonMonVars

DoEndUpdate ==
    /\ \E success \in BOOLEAN, elapsed \in ElapsedSteps :
          EndUpdate(success, IF success THEN <<>> ELSE <<"e">>, elapsed)
    /\ UNCHANGED nonMonVars

DoGetStats == CallGetStats /\ UNCHANGED nonMonVars

StatsNext ==
    \/ DoStartUpdate
    \/ DoEndUpdate
    \/ DoGetStats

\* The counts getRecentMetrics is called with.
RecentCounts == {0, 1, 2, 3, 4}

DoGetRecentMetrics ==
    /\ \E count \in RecentCounts : CallGetRecentMetrics(count)
    /\ UNCHANGED <<graphVars, watchVars, connVars, pureVars, updVars,
                   sockVars, loadVars, serverAccepts>>

RecentNext ==
    \/ DoStartUpdate
    \/ DoEndUpdate
    \/ DoGetRecentMetrics

\* Cycles of a long series of updates, each 1 ms long, every other one
\* failing.
MaxCycles == 150

DoStartUpdateInSeries ==
    /\ currentUpdate = <<>>
    /\ Len(closedLog) < MaxCycles
    /\ StartUpdate(<<<<"f", "1">>>>, "update")
    /\ UNCHANGED nonMonVars

DoEndUpdateInSeries ==
    /\ currentUpdate # <<>>
    /\ LET success == Len(closedLog) % 2 = 0
       IN  EndUpdate(success, IF success THEN <<>> ELSE <<"e">>, 1)
    /\ UNCHANGED nonMonVars

SeriesNext ==
    \/ DoStartUpdateInSeries
    \/ DoEndUpdateInSeries

(***************************************************************************)
(* WebSocketManager  (src/src/dev/dev-tools.ts)                            *)
(***************************************************************************)
\* Sockets upgraded in one run.
MaxSockets == 2

\* Heartbeat callbacks run in one run.
MaxHeartbeats == 1

\* The connections a broadcast finds open.
OpenConnections == {c \in connections : readyState[c] = "OPEN"}

\* broadcast(message) without the try/catch around send: the first send that
\* throws ends the loop (a Set iterates in insertion order) and escapes.
BroadcastNoCatch(message) ==
    \E failing \in SUBSET OpenConnections :
        LET reached == {c \in OpenConnections :
                           \A f \in failing : c <= f}
        IN  /\ broadcasts' = Append(broadcasts, message)
            /\ lastSend' = [type |-> message.type,
                            among |-> connections,
                            states |-> readyState,
                            attempted |-> reached,
                            threw |-> failing \cap reached,
                            delivered |-> reached \ failing,
                            escaped |-> failing # {}]

\* broadcast(message); `failing` are the sockets whose send() throws.
Broadcast(message) ==
    \E failing \in SUBSET OpenConnections :
        /\ broadcasts' = Append(broadcasts, message)
        /\ lastSend' = [type |-> message.type,
                        among |-> connections,
                        states |-> readyState,
                        attempted |-> OpenConnections,
                        threw |-> failing,
                        delivered |-> OpenConnections \ failing,
                        escaped |-> FALSE]

\* startHeartbeatIfNeeded() without the test of heartbeatTimer.
StartHeartbeatAlways ==
    /\ heartbeatTimer' = nextIntervalId
    /\ intervals' = intervals \cup {nextIntervalId}
    /\ nextIntervalId' = nextIntervalId + 1

\* startHeartbeatIfNeeded()
StartHeartbeatIfNeeded ==
    IF heartbeatTimer # 0
    THEN UNCHANGED <<heartbeatTimer, intervals, nextIntervalId>>
    ELSE /\ heartbeatTimer' = nextIntervalId
         /\ intervals' = intervals \cup {nextIntervalId}
         /\ nextIntervalId' = nextIntervalId + 1

\* The onWebSocket handler: upgradeWebSocket(req), then wsManager.add(ws).
\* Server.stop() shuts the HTTP application down before DevTools.stop().
Upgrade ==
    LET socket == Len(readyState) + 1
    IN  /\ ~stopped
        /\ socket <= MaxSockets
        /\ readyState' = Append(readyState, "CONNECTING")
        /\ connections' = connections \cup {socket}
        /\ StartHeartbeatIfNeeded
        /\ UNCHANGED <<stopped, heartbeats, closeCalls, lastSend>>

\* The socket's open event; its listener sends "connected" to that socket.
SocketOpens(c) ==
    /\ readyState[c] = "CONNECTING"
    /\ readyState' = [readyState EXCEPT ![c] = "OPEN"]
    /\ UNCHANGED <<connections, heartbeatTimer, intervals, nextIntervalId,
                   stopped, heartbeats, closeCalls, lastSend>>

\* The socket's close event: ws.onclose removes it from the set.
SocketCloses(c) ==
    /\ readyState[c] # "CLOSED"
    /\ readyState' = [readyState EXCEPT ![c] = "CLOSED"]
    /\ connections' = connections \ {c}
    /\ UNCHANGED <<heartbeatTimer, intervals, nextIntervalId, stopped,
                   heartbeats, closeCalls, lastSend>>

\* The setInterval callback of the heartbeat.
HeartbeatTick(i) ==
    /\ i \in intervals
    /\ heartbeats < MaxHeartbeats
    /\ heartbeats' = heartbeats + 1
    /\ IF connections = {}
       THEN UNCHANGED <<broadcasts, lastSend>>
       ELSE Broadcast([type |-> "ping"])
    /\ UNCHANGED <<connections, readyState, heartbeatTimer, intervals,
                   nextIntervalId, stopped, closeCalls>>

\* A close() that closes the sockets and leaves them in the set.
CloseKeepsConnections ==
    /\ closeCalls' = closeCalls + 1
    /\ intervals' = intervals \ {heartbeatTimer}
    /\ heartbeatTimer' = 0
    /\ readyState' = [c \in DOMAIN readyState |->
                         IF c \in connections
                            /\ readyState[c] \in {"CONNECTING", "OPEN"}
                         THEN "CLOSING" ELSE readyState[c]]
    /\ UNCHANGED <<connections, nextIntervalId>>

\* close(); ws.close() moves a socket that is connecting or open to CLOSING
\* and does nothing to one that is closing or closed.
Close ==
    /\ closeCalls' = closeCalls + 1
    /\ intervals' = intervals \ {heartbeatTimer}
    /\ heartbeatTimer' = 0
    /\ readyState' = [c \in DOMAIN readyState |->
                         IF c \in connections
                            /\ readyState[c] \in {"CONNECTING", "OPEN"}
                         THEN "CLOSING" ELSE readyState[c]]
    /\ connections' = {}
    /\ UNCHANGED nextIntervalId

SocketInit ==
    /\ connections = {}
    /\ readyState = <<>>
    /\ heartbeatTimer = 0
    /\ intervals = {}
    /\ nextIntervalId = 1
    /\ stopped = FALSE
    /\ heartbeats = 0
    /\ closeCalls = 0
    /\ lastSend = NoResult

(***************************************************************************)
(* DevTools: file watcher and per-path debounce                            *)
(***************************************************************************)
\* FILE_CHANGE_DEBOUNCE_MS
DebounceMs == 100

\* Number of watch events delivered in one run.
MaxWatchEvents == 3

\* Time advances in steps of half a debounce window or a whole one.
TickSteps == {DebounceMs \div 2, DebounceMs}

PathA == <<"a", ".", "t", "s">>

PathB == <<"b", ".", "c", "s", "s">>

PathIgnored == <<"n", "\\", "x", ".", "t", "s">>

EventPaths == {PathA, PathB, PathIgnored}

\* Files of a project: two configuration files (one of them under pages/),
\* a page, a module and a text file outside every routed directory.
PathDenoJson == <<"d", "e", "n", "o", ".", "j", "s", "o", "n">>

PathPagesConfig == <<"p", "a", "g", "e", "s", "/", "a", "p", "p", ".", "c", "o", "n", "f", "i", "g", ".", "t", "s">>

PathUserPage == <<"p", "a", "g", "e", "s", "/", "u", "s", "e", "r", "/", "[", "i", "d", "]", ".", "t", "s", "x">>

PathHelper == <<"u", "t", "i", "l", "s", "/", "h", "e", "l", "p", "e", "r", ".", "t", "s">>

PathNotes == <<"u", "t", "i", "l", "s", "/", "n", "o", "t", "e", "s", ".", "m", "d">>

ProjectPaths == {PathDenoJson, PathPagesConfig, PathUserPage, PathHelper,
                 PathNotes, PathB}

\* event.paths: no path at all, or one path.
EventPathArrays == {<<>>} \cup {<<p>> : p \in EventPaths}

EventKinds == {"modify", "create", "remove"}

\* Every string the loop can use as a key: event.paths?.[0] || "".
WatchKeys == EventPaths \cup ProjectPaths \cup {<<>>}

\* watchConfig.ignore
WatchIgnore == {<<"n", "/">>}

IsIgnored(filePath) ==
    /\ WatchIgnore # {}
    /\ LET normalized == ReplaceAllChar(filePath, "\\", "/")
       IN  \E pattern \in WatchIgnore :
              Includes(normalized, ReplaceAllChar(pattern, "\\", "/"))

\* A watch loop that forgets clearTimeout(existing).
ClearTimeoutMissing(timers, handle) == timers

\* clearTimeout(handle): a handle that already fired is ignored.
ClearTimeout(timers, handle) == {t \in timers : t.id # handle}

\* inferRouteFromPath: route || "/"
InferRouteFromPath(filePath) ==
    IF Truthy(InferRoute(filePath)) THEN InferRoute(filePath) ELSE <<"/">>

\* The body of the `for await` loop for one event.
WatchEvent(kind, paths) ==
    LET path == IF paths # <<>> THEN paths[1] ELSE <<>>
        accepted == kind \in {"modify", "create"} /\ ~IsIgnored(path)
        updateType == DetermineUpdateType(path)
        cleared == IF path \in DOMAIN rebuildTimers
                   THEN ClearTimeout(liveTimers, rebuildTimers[path])
                   ELSE liveTimers
        timer == [id |-> nextTimerId, path |-> path,
                  updateType |-> updateType, due |-> DebounceMs]
    IN  /\ watchEvents < MaxWatchEvents
        \* fileWatcher.close() ends the loop
        /\ ~stopped
        \* a callback that is due runs before a later event is delivered
        /\ \A t \in liveTimers : t.due > 0
        /\ watchEvents' = watchEvents + 1
        /\ IF accepted
           THEN /\ liveTimers' = cleared \cup {timer}
                /\ rebuildTimers' = MapSet(rebuildTimers, path, nextTimerId)
                /\ nextTimerId' = nextTimerId + 1
                /\ eventCount' = [eventCount EXCEPT ![path] = @ + 1]
                /\ burstCount' = [burstCount EXCEPT ![path] =
                                    IF eventAge[path] >= DebounceMs
                                    THEN @ + 1 ELSE @]
                /\ eventAge' = [eventAge EXCEPT ![path] = 0]
           ELSE UNCHANGED <<liveTimers, rebuildTimers, nextTimerId,
                            eventCount, burstCount, eventAge>>
        /\ UNCHANGED <<hasBuilder, inflight, broadcasts, rebuildCount, settled>>
        /\ UNCHANGED <<monVars, sockVars>>

\* d milliseconds pass; no pending callback is overdue afterwards.
Tick(d) ==
    /\ liveTimers # {}
    /\ \A t \in liveTimers : t.due >= d
    /\ liveTimers' = {[t EXCEPT !.due = @ - d] : t \in liveTimers}
    /\ eventAge' = [p \in WatchKeys |->
                       IF eventAge[p] + d >= DebounceMs
                       THEN DebounceMs ELSE eventAge[p] + d]
    /\ UNCHANGED <<hasBuilder, rebuildTimers, nextTimerId, inflight,
                   broadcasts, watchEvents, eventCount, burstCount,
                   rebuildCount, settled>>
    /\ UNCHANGED <<monVars, sockVars>>

\* A timer callback that leaves its handle in rebuildTimers.
TimerFiresKeepsEntry(t) ==
    /\ t \in liveTimers
    /\ t.due = 0
    /\ liveTimers' = liveTimers \ {t}
    /\ UNCHANGED rebuildTimers
    /\ IF ~hasBuilder
       THEN /\ Broadcast([type |-> IF t.updateType = "css-update"
                                     THEN "css-update" ELSE "reload",
                            path |-> t.path,
                            route |-> InferRouteFromPath(t.path)])
            /\ UNCHANGED <<inflight, rebuildCount, settled>>
            /\ UNCHANGED monVars
       ELSE /\ StartUpdate(<<t.path>>, t.updateType)
            /\ inflight' = inflight \cup
                 {[id |-> t.id, path |-> t.path, updateType |-> t.updateType]}
            /\ rebuildCount' = [rebuildCount EXCEPT ![t.path] = @ + 1]
            /\ UNCHANGED <<broadcasts, settled, lastSend>>
    /\ UNCHANGED <<hasBuilder, nextTimerId, watchEvents, eventAge,
                   eventCount, burstCount>>
    /\ UNCHANGED sockStateVars

\* The setTimeout callback of the watch loop followed by runRebuildForPath
\* up to the point where rebuild() has been called.
TimerFires(t) ==
    /\ t \in liveTimers
    /\ t.due = 0
    /\ liveTimers' = liveTimers \ {t}
    /\ rebuildTimers' = MapDelete(rebuildTimers, t.path)
    /\ IF ~hasBuilder
       THEN /\ Broadcast([type |-> IF t.updateType = "css-update"
                                     THEN "css-update" ELSE "reload",
                            path |-> t.path,
                            route |-> InferRouteFromPath(t.path)])
            /\ UNCHANGED <<inflight, rebuildCount, settled>>
            /\ UNCHANGED monVars
       ELSE /\ StartUpdate(<<t.path>>, t.updateType)
            /\ inflight' = inflight \cup
                 {[id |-> t.id, path |-> t.path, updateType |-> t.updateType]}
            /\ rebuildCount' = [rebuildCount EXCEPT ![t.path] = @ + 1]
            /\ UNCHANGED <<broadcasts, settled, lastSend>>
    /\ UNCHANGED <<hasBuilder, nextTimerId, watchEvents, eventAge,
                   eventCount, burstCount>>
    /\ UNCHANGED sockStateVars

\* A message assembly that leaves the classification as the type.
UpdateMessageTypeUnmapped(updateType) == updateType

\* .then(...) of runRebuildForPath: the update message that is broadcast.
UpdateMessageType(updateType) ==
    IF updateType = "config-update" THEN "reload" ELSE updateType

\* Milliseconds a rebuild takes on the monitor's clock.
RebuildMs == 1

\* A message assembly that keeps the graph's module id for every type.
MessageModuleIdFromGraph(updateType, path) == GetModuleId(fileToModule, path)

\* updateMessage.moduleId: getModuleId(path), <<>> for undefined, replaced
\* by the path for a module-update.
MessageModuleId(updateType, path) ==
    IF updateType = "module-update"
    THEN <<path>>
    ELSE GetModuleId(fileToModule, path)

RebuildResolves(b) ==
    /\ b \in inflight
    /\ inflight' = inflight \ {b}
    /\ Broadcast([type |-> UpdateMessageType(b.updateType), path |-> b.path,
                  route |-> InferRouteFromPath(b.path),
                  moduleId |-> MessageModuleId(b.updateType, b.path),
                  affectedModules |->
                     GetAffectedModules(fileToModule, dependents, b.path)])
    /\ EndUpdate(TRUE, <<>>, RebuildMs)
    /\ settled' = Append(settled, [path |-> b.path, ok |-> TRUE])
    /\ UNCHANGED <<hasBuilder, rebuildTimers, liveTimers, nextTimerId,
                   watchEvents, eventAge, eventCount, burstCount,
                   rebuildCount>>
    /\ UNCHANGED sockStateVars

\* A .catch(...) that records the failure without telling the clients.
RebuildRejectsSilent(b) ==
    /\ b \in inflight
    /\ inflight' = inflight \ {b}
    /\ EndUpdate(FALSE, <<"e">>, RebuildMs)
    /\ settled' = Append(settled, [path |-> b.path, ok |-> FALSE])
    /\ UNCHANGED <<hasBuilder, rebuildTimers, liveTimers, nextTimerId,
                   watchEvents, eventAge, eventCount, burstCount,
                   rebuildCount, broadcasts>>
    /\ UNCHANGED sockVars

\* .catch(...) of runRebuildForPath.
RebuildRejects(b) ==
    /\ b \in inflight
    /\ inflight' = inflight \ {b}
    /\ Broadcast([type |-> "error"])
    /\ EndUpdate(FALSE, <<"e">>, RebuildMs)
    /\ settled' = Append(settled, [path |-> b.path, ok |-> FALSE])
    /\ UNCHANGED <<hasBuilder, rebuildTimers, liveTimers, nextTimerId,
                   watchEvents, eventAge, eventCount, burstCount,
                   rebuildCount>>
    /\ UNCHANGED sockStateVars

WatchInit ==
    /\ hasBuilder \in BOOLEAN
    /\ rebuildTimers = EmptyMap
    /\ liveTimers = {}
    /\ nextTimerId = 1
    /\ inflight = {}
    /\ broadcasts = <<>>
    /\ watchEvents = 0
    /\ eventAge = [p \in WatchKeys |-> DebounceMs]
    /\ eventCount = [p \in WatchKeys |-> 0]
    /\ burstCount = [p \in WatchKeys |-> 0]
    /\ rebuildCount = [p \in WatchKeys |-> 0]
    /\ settled = <<>>
    /\ MonitorInit
    /\ SocketInit

DoWatchEvent ==
    /\ \E kind \in EventKinds, paths \in EventPathArrays :
          WatchEvent(kind, paths)
    /\ UNCHANGED nonWatchVars

DoTick ==
    /\ \E d \in TickSteps : Tick(d)
    /\ UNCHANGED nonWatchVars

DoTimerFires ==
    /\ \E t \in liveTimers : TimerFires(t)
    /\ UNCHANGED nonWatchVars

DoRebuildResolves ==
    /\ \E b \in inflight : RebuildResolves(b)
    /\ UNCHANGED nonWatchVars

DoRebuildRejects ==
    /\ \E b \in inflight : RebuildRejects(b)
    /\ UNCHANGED nonWatchVars

WatchNext ==
    \/ DoWatchEvent
    \/ DoTick
    \/ DoTimerFires
    \/ DoRebuildResolves
    \/ DoRebuildRejects

\* stop() that leaves the callbacks of the registered timers pending.
StopLeavesTimers ==
    /\ ~stopped
    /\ UNCHANGED liveTimers
    /\ rebuildTimers' = EmptyMap
    /\ stopped' = TRUE
    /\ Close
    /\ Clear
    /\ UNCHANGED <<hasBuilder, nextTimerId, inflight, broadcasts, watchEvents,
                   eventAge, eventCount, burstCount, rebuildCount, settled>>
    /\ UNCHANGED <<monVars, heartbeats, lastSend>>

\* stop()
Stop ==
    /\ ~stopped
    /\ liveTimers' = {t \in liveTimers :
                         \A p \in DOMAIN rebuildTimers :
                             t.id # rebuildTimers[p]}
    /\ rebuildTimers' = EmptyMap
    /\ stopped' = TRUE
    /\ Close
    /\ Clear
    /\ UNCHANGED <<hasBuilder, nextTimerId, inflight, broadcasts, watchEvents,
                   eventAge, eventCount, burstCount, rebuildCount, settled>>
    /\ UNCHANGED <<monVars, heartbeats, lastSend>>

\* Watch events delivered in a run with sockets.
MaxServerEvents == 1

ChangedPaths == {PathA}

DoFileChanged ==
    /\ watchEvents < MaxServerEvents
    /\ \E path \in ChangedPaths : WatchEvent("modify", <<path>>)
    /\ UNCHANGED nonWatchVars

DoUpgrade ==
    /\ Upgrade
    /\ UNCHANGED <<watchVars, monVars, nonWatchVars>>

DoSocketOpens ==
    /\ \E c \in DOMAIN readyState : SocketOpens(c)
    /\ UNCHANGED <<watchVars, monVars, nonWatchVars>>

DoSocketCloses ==
    /\ \E c \in DOMAIN readyState : SocketCloses(c)
    /\ UNCHANGED <<watchVars, monVars, nonWatchVars>>

DoHeartbeatTick ==
    /\ \E i \in intervals : HeartbeatTick(i)
    /\ UNCHANGED <<hasBuilder, rebuildTimers, liveTimers, nextTimerId,
                   inflight, watchEvents, eventAge, eventCount, burstCount,
                   rebuildCount, settled>>
    /\ UNCHANGED <<monVars, nonWatchVars>>

DoStop ==
    /\ Stop
    /\ UNCHANGED <<connVars, pureVars, updVars, loadVars, recentCall,
                   serverAccepts>>

\* The files the Builder registers modules for, and that change.
BuiltPaths == {PathHelper, PathUserPage}

BuiltModules == {<<"m", "1">>, <<"m", "2">>}

\* Watch events in a run in which the Builder keeps the graph up to date.
MaxBuiltEvents == 1

DoBuiltFileChanged ==
    /\ watchEvents < MaxBuiltEvents
    /\ \E path \in BuiltPaths : WatchEvent("modify", <<path>>)
    /\ UNCHANGED nonWatchVars

\* The Builder registers a module through getModuleGraph(): m1 without
\* dependencies, m2 as a dependent of m1, each under either file.
DoBuilderAddsModule ==
    /\ \E m \in BuiltModules, f \in BuiltPaths :
          AddModule(m, f, IF m = <<"m", "2">> THEN {<<"m", "1">>} ELSE {})
    /\ UNCHANGED nonGraphVars

DoBuilderRemovesModule ==
    /\ \E m \in BuiltModules : RemoveModule(m)
    /\ UNCHANGED nonGraphVars

AssembleNext ==
    \/ DoBuiltFileChanged
    \/ DoBuilderAddsModule
    \/ DoBuilderRemovesModule
    \/ DoTick
    \/ DoTimerFires
    \/ DoRebuildResolves
    \/ DoRebuildRejects

\* close() calls on the manager in a run of the manager alone.
MaxCloses == 2

\* wsManager.close(), at any time and any number of times.
DoClose ==
    /\ closeCalls < MaxCloses
    /\ Close
    /\ UNCHANGED <<stopped, heartbeats, lastSend>>
    /\ UNCHANGED <<watchVars, monVars, nonWatchVars>>

ChannelNext ==
    \/ DoUpgrade
    \/ DoSocketOpens
    \/ DoSocketCloses
    \/ DoHeartbeatTick
    \/ DoClose

ServerNext ==
    \/ DoFileChanged
    \/ DoTick
    \/ DoTimerFires
    \/ DoRebuildResolves
    \/ DoRebuildRejects
    \/ DoUpgrade
    \/ DoSocketOpens
    \/ DoSocketCloses
    \/ DoHeartbeatTick
    \/ DoStop

(***************************************************************************)
(* HMRClient: route gating  (src/src/dev/hmr-browser.ts)                   *)
(***************************************************************************)
\* s.split(ch)[0]
BeforeFirst(s, ch) ==
    IF \E i \in DOMAIN s : s[i] = ch
    THEN SubSeq(s, 1, (CHOOSE i \in DOMAIN s :
                          s[i] = ch /\ \A j \in 1..(i - 1) : s[j] # ch) - 1)
    ELSE s

\* normalizeRoute of the client.
ClientNormalizeRoute(route) ==
    IF ~Truthy(route)
    THEN <<"/">>
    ELSE LET path == BeforeFirst(BeforeFirst(route, "?"), "#")
             normalized == IF StartsWith(path, <<"/">>)
                           THEN path ELSE <<"/">> \o path
         IN  IF normalized = <<"/">> THEN <<"/">>
             ELSE IF normalized[Len(normalized)] = "/"
                  THEN SubSeq(normalized, 1, Len(normalized) - 1)
                  ELSE normalized

\* s.split("/").filter(Boolean)
RECURSIVE SplitSegments(_)
SplitSegments(s) ==
    IF s = <<>> THEN <<>>
    ELSE IF s[1] = "/" THEN SplitSegments(Tail(s))
    ELSE LET seg == BeforeFirst(s, "/")
         IN  <<seg>> \o SplitSegments(DropFirst(s, Len(seg)))

\* The loop of isCurrentRoute over the route segments.
SegmentsMatch(routeSegments, currentSegments) ==
    /\ Len(currentSegments) = Len(routeSegments)
    /\ \A i \in DOMAIN routeSegments :
          \/ StartsWith(routeSegments[i], <<":">>)
          \/ routeSegments[i] = <<"*">>
          \/ routeSegments[i] = currentSegments[i]

\* isCurrentRoute(route).  renderUrl is __RENDER_DATA__.loadContext.url, or
\* "" when no render data (or no url) is injected; locationPath is
\* location.pathname.
IsCurrentRoute(renderUrl, locationPath, route) ==
    IF Truthy(renderUrl)
    THEN LET currentPath == BeforeFirst(BeforeFirst(renderUrl, "?"), "#")
         IN  ClientNormalizeRoute(currentPath) = ClientNormalizeRoute(route)
    ELSE LET normalizedCurrentPath == ClientNormalizeRoute(locationPath)
             normalizedRoute == ClientNormalizeRoute(route)
         IN  \/ normalizedCurrentPath = normalizedRoute
             \/ SegmentsMatch(SplitSegments(normalizedRoute),
                              SplitSegments(normalizedCurrentPath))

(***************************************************************************)
(* HMRClient: merging a batch  (src/src/dev/hmr-browser.ts)                *)
(***************************************************************************)
\* A message is a record [type, path, files, route]; an absent path or
\* route is "" (the code only tests them for truthiness) and absent files
\* are the empty list (tested by `msg.files` and by `length > 0`).
\* A table in which a type it does not list ranks first.
PriorityUnlistedFirst(type) ==
    CASE type = "reload" -> 0
      [] type = "error" -> 1
      [] type = "css-update" -> 2
      [] type = "component-update" -> 3
      [] type = "layout-update" -> 4
      [] type = "module-update" -> 5
      [] type = "update" -> 6
      [] OTHER -> 0 - 1

Priority(type) ==
    CASE type = "reload" -> 0
      [] type = "error" -> 1
      [] type = "css-update" -> 2
      [] type = "component-update" -> 3
      [] type = "layout-update" -> 4
      [] type = "module-update" -> 5
      [] type = "update" -> 6
      [] OTHER -> 999

\* A comparator that ranks the other way round.
PriorityReversed(type) == 999 - Priority(type)

\* Array.prototype.sort with the priority comparator (stable): the message
\* at position i moves to position rank(i), one more than the number of
\* messages the comparator puts before it.
SortByPriority(messages) ==
    LET n == Len(messages)
        rank(i) ==
            Cardinality(
                {j \in 1..n :
                    \/ Priority(messages[j].type) < Priority(messages[i].type)
                    \/ /\ Priority(messages[j].type)
                             = Priority(messages[i].type)
                       /\ j < i}) + 1
    IN  [k \in 1..n |-> messages[CHOOSE i \in 1..n : rank(i) = k]]

\* Array.from(new Set(values that are truthy))[0], or "" when there is none.
RECURSIVE FirstTruthy(_)
FirstTruthy(values) ==
    IF values = <<>> THEN <<>>
    ELSE IF Truthy(values[1]) THEN values[1]
    ELSE FirstTruthy(Tail(values))

RECURSIVE ConcatAll(_)
ConcatAll(lists) ==
    IF lists = <<>> THEN <<>> ELSE lists[1] \o ConcatAll(Tail(lists))

\* mergeUpdates(messages) for a non-empty list.  sort() reorders the list in
\* place, so the loop that collects paths, files and routes runs over the
\* sorted list.
MergeUpdates(messages) ==
    IF Len(messages) = 1
    THEN messages[1]
    ELSE LET sorted == SortByPriority(messages)
             primary == sorted[1]
             firstPath == FirstTruthy([i \in DOMAIN sorted |-> sorted[i].path])
             allFiles == ConcatAll([i \in DOMAIN sorted |-> sorted[i].files])
             firstRoute == FirstTruthy([i \in DOMAIN sorted |-> sorted[i].route])
         IN  [primary EXCEPT
                !.path = IF Truthy(firstPath) THEN firstPath ELSE primary.path,
                !.files = IF Len(allFiles) > 0 THEN allFiles ELSE primary.files,
                !.route = IF Truthy(firstRoute) THEN firstRoute
                          ELSE primary.route]

(***************************************************************************)
(* HMRClient: connection and reconnection  (src/src/dev/hmr-browser.ts)    *)
(***************************************************************************)
maxReconnectAttempts == 10
initialReconnectDelay == 1000
maxReconnectDelay == 30000

\* Delays are kept in units of 1/DelayScale ms, which represents
\* 1000 * 1.5^n exactly for every n below 10.
DelayScale == 2^9

\* Total connect() invocations explored.
MaxConnects == 13

\* Math.min(reconnectDelay * Math.pow(1.5, attempts), maxReconnectDelay):
\* the exponent is off by one.
BackoffDelayOffByOne(base, attempts) ==
    LET num == base * 3^attempts
        den == 2^attempts
    IN  IF num >= maxReconnectDelay * den
        THEN maxReconnectDelay * DelayScale
        ELSE num * (DelayScale \div den)

\* Math.min(reconnectDelay * Math.pow(1.5, attempts - 1), maxReconnectDelay)
\* in units of 1/DelayScale ms.
BackoffDelay(base, attempts) ==
    LET num == base * 3^(attempts - 1)
        den == 2^(attempts - 1)
    IN  IF num >= maxReconnectDelay * den
        THEN maxReconnectDelay * DelayScale
        ELSE num * (DelayScale \div den)

\* A client that never gives up.
CanRetryAlways(attempts) == TRUE

\* this.reconnectAttempts < this.maxReconnectAttempts
CanRetry(attempts) == attempts < maxReconnectAttempts

\* clearTimeout(handle) in the tab.
ClearClientTimeout(timers, handle) == {t \in timers : t.id # handle}

\* scheduleReconnect(), entered with the pending callbacks timersNow and
\* the indicator showing statusNow.
ScheduleReconnect(timersNow, statusNow) ==
    LET cleared == IF reconnectTimer # 0
                   THEN ClearClientTimeout(timersNow, reconnectTimer)
                   ELSE timersNow
    IN  IF CanRetry(reconnectAttempts)
        THEN /\ reconnectAttempts' = reconnectAttempts + 1
             /\ clientTimers' = cleared \cup
                   {[id |-> nextClientTimerId,
                     delay |-> BackoffDelay(reconnectDelay,
                                            reconnectAttempts + 1)]}
             /\ reconnectTimer' = nextClientTimerId
             /\ nextClientTimerId' = nextClientTimerId + 1
             /\ connectionStatus' = "reconnecting"
             /\ UNCHANGED reconnectDelay
        ELSE /\ reconnectDelay' = initialReconnectDelay
             /\ reconnectAttempts' = 0
             /\ clientTimers' = cleared
             /\ connectionStatus' = statusNow
             /\ UNCHANGED <<reconnectTimer, nextClientTimerId>>

\* connect(): statusUI.init() creates the indicator, which starts out
\* showing "connected"; `new WebSocket` either returns a socket that is
\* connecting or throws, and the catch block schedules a reconnection.
Connect(timersNow, byTimer, throws) ==
    /\ connectCalls < MaxConnects
    /\ connectCalls' = connectCalls + 1
    /\ viaTimer' = byTimer
    /\ LET statusNow == IF connectionStatus = "none"
                        THEN "connected" ELSE connectionStatus
           streak == IF byTimer THEN lossStreak ELSE 0
           failed == IF byTimer THEN failedStreak ELSE 0
       IN  IF throws
           THEN /\ ScheduleReconnect(timersNow, statusNow)
                /\ lossStreak' = streak + 1
                /\ failedStreak' = IF byTimer THEN failed + 1 ELSE failed
                /\ UNCHANGED ws
           ELSE /\ ws' = "connecting"
                /\ connectionStatus' = statusNow
                /\ lossStreak' = streak
                /\ failedStreak' = failed
                /\ UNCHANGED <<reconnectTimer, reconnectAttempts,
                               reconnectDelay, nextClientTimerId>>
                /\ clientTimers' = timersNow

\* connect() called from outside the client: by initHMR when the page has
\* loaded, or afresh once the client has stopped reconnecting.
ExternalConnect(throws) ==
    /\ ws = "null"
    /\ clientTimers = {}
    /\ Connect(clientTimers, FALSE, throws)

\* A callback that stays pending after it has run, as one given to
\* setInterval would.
ReconnectTimerFiresRepeats(t, throws) ==
    /\ t \in clientTimers
    /\ Connect(clientTimers, TRUE, throws)

\* The callback given to setTimeout by scheduleReconnect.
ReconnectTimerFires(t, throws) ==
    /\ t \in clientTimers
    /\ Connect(clientTimers \ {t}, TRUE, throws)

\* An onopen handler that leaves the counter and the base delay alone.
WsOpenNoReset ==
    /\ ws = "connecting"
    /\ ws' = "open"
    /\ connectionStatus' = "connected"
    /\ lossStreak' = 0
    /\ failedStreak' = 0
    /\ UNCHANGED <<reconnectAttempts, reconnectDelay, reconnectTimer,
                   clientTimers, nextClientTimerId, connectCalls, viaTimer>>

\* ws.onopen
WsOpen ==
    /\ ws = "connecting"
    /\ ws' = "open"
    /\ reconnectAttempts' = 0
    /\ reconnectDelay' = initialReconnectDelay
    /\ connectionStatus' = "connected"
    /\ lossStreak' = 0
    /\ failedStreak' = 0
    /\ UNCHANGED <<reconnectTimer, clientTimers, nextClientTimerId,
                   connectCalls, viaTimer>>

\* ws.onerror
WsError ==
    /\ ws \in {"connecting", "open"}
    /\ connectionStatus' = "error"
    /\ UNCHANGED <<ws, reconnectTimer, reconnectAttempts, reconnectDelay,
                   clientTimers, nextClientTimerId, connectCalls, viaTimer,
                   lossStreak, failedStreak>>

\* An onclose handler that schedules nothing.
WsCloseNoReconnect ==
    /\ ws \in {"connecting", "open"}
    /\ ws' = "null"
    /\ connectionStatus' = "disconnected"
    /\ lossStreak' = lossStreak + 1
    /\ failedStreak' = IF ws = "connecting" /\ viaTimer
                       THEN failedStreak + 1 ELSE failedStreak
    /\ UNCHANGED <<reconnectTimer, reconnectAttempts, reconnectDelay,
                   clientTimers, nextClientTimerId, connectCalls, viaTimer>>

\* ws.onclose
WsClose ==
    /\ ws \in {"connecting", "open"}
    /\ ws' = "null"
    /\ ScheduleReconnect(clientTimers, "disconnected")
    /\ lossStreak' = lossStreak + 1
    /\ failedStreak' = IF ws = "connecting" /\ viaTimer
                       THEN failedStreak + 1 ELSE failedStreak
    /\ UNCHANGED <<connectCalls, viaTimer>>

ConnInit ==
    /\ ws = "null"
    /\ reconnectTimer = 0
    /\ reconnectAttempts = 0
    /\ reconnectDelay = initialReconnectDelay
    /\ clientTimers = {}
    /\ nextClientTimerId = 1
    /\ connectionStatus = "none"
    /\ connectCalls = 0
    /\ viaTimer = FALSE
    /\ lossStreak = 0
    /\ failedStreak = 0
    /\ serverAccepts = TRUE

DoExternalConnect ==
    /\ \E throws \in BOOLEAN : ExternalConnect(throws)
    /\ UNCHANGED nonConnVars

DoReconnectTimerFires ==
    /\ \E t \in clientTimers, throws \in BOOLEAN :
          ReconnectTimerFires(t, throws)
    /\ UNCHANGED nonConnVars

DoWsOpen == WsOpen /\ UNCHANGED nonConnVars

DoWsError == WsError /\ UNCHANGED nonConnVars

DoWsClose == WsClose /\ UNCHANGED nonConnVars

ConnNext ==
    \/ DoExternalConnect
    \/ DoReconnectTimerFires
    \/ DoWsOpen
    \/ DoWsError
    \/ DoWsClose

(***************************************************************************)
(* HMRClient: queueing and handling updates  (src/src/dev/hmr-browser.ts)  *)
(***************************************************************************)
RouteUser123 == <<"/", "u", "s", "e", "r", "/", "1", "2", "3">>
RouteUserId == <<"/", "u", "s", "e", "r", "/", ":", "i", "d">>
RoutePost1 == <<"/", "p", "o", "s", "t", "/", "1">>

\* Messages delivered to one tab.
MaxInbound == 2

PathCss == <<"a", ".", "c", "s", "s">>
PathPage == <<"p", ".", "t", "s", "x">>
FileJs == <<"o", ".", "j", "s">>

\* A message as the server builds it: componentPath and layoutPath repeat
\* the path for their own update type only.
ClientMsg(type, path, files, route) ==
    [type |-> type, path |-> path, files |-> files, route |-> route,
     componentPath |-> IF type = "component-update" THEN path ELSE <<>>,
     layoutPath |-> IF type = "layout-update" THEN path ELSE <<>>]

InboundRoutes == {<<>>, RouteUserId, RoutePost1}

InboundMessages ==
    {ClientMsg(type, PathPage, <<>>, route) :
        type \in {"reload", "component-update", "layout-update",
                  "module-update"},
        route \in InboundRoutes}
    \cup {ClientMsg("update", PathPage, files, route) :
             files \in {<<>>, <<FileJs>>}, route \in InboundRoutes}
    \cup {ClientMsg("css-update", path, <<>>, route) :
             path \in {<<>>, PathCss}, route \in InboundRoutes}
    \cup {ClientMsg(type, <<>>, <<>>, <<>>) :
             type \in {"error", "connected", "ping"}}

HmrApis == {"none", "module.hot", "vite"}

\* this.isCurrentRoute(route) in the tab.
TabIsCurrentRoute(route) ==
    IsCurrentRoute(IF tab.fromRender THEN tab.current ELSE <<>>,
                   tab.current, route)

\* What handleUpdate(message) ends in.
HandleUpdateOutcome(message) ==
    IF Truthy(message.route) /\ ~TabIsCurrentRoute(message.route)
    THEN "skipped"
    ELSE IF tab.hmrApi = "module.hot" THEN "hot-accept"
    ELSE IF tab.hmrApi = "vite" THEN "vite"
    ELSE IF Len(message.files) > 0 THEN "load-modules"
    ELSE IF Truthy(message.componentPath) \/ Truthy(message.layoutPath)
         THEN "component-event"
    ELSE "reload"

\* A handleMergedUpdate whose component, layout and module updates check
\* the route before reloading.
HandleMergedOutcomeGated(message) ==
    CASE message.type = "update" -> HandleUpdateOutcome(message)
      [] message.type = "css-update" ->
            IF ~Truthy(message.path) THEN "css-no-path" ELSE "css"
      [] message.type \in {"component-update", "layout-update",
                           "module-update"} ->
            IF Truthy(message.route) /\ ~TabIsCurrentRoute(message.route)
            THEN "skipped" ELSE "reload"
      [] OTHER -> "unknown"

\* What handleMergedUpdate(message) ends in.
HandleMergedOutcome(message) ==
    CASE message.type = "update" -> HandleUpdateOutcome(message)
      [] message.type = "css-update" ->
            IF ~Truthy(message.path) THEN "css-no-path" ELSE "css"
      [] message.type \in {"component-update", "layout-update",
                           "module-update"} -> "reload"
      [] OTHER -> "unknown"

\* clearTimeout(handle) for a batch timer.
\* clearTimeout that leaves the callback pending.
ClearBatchTimeoutMissing(timers, handle) == timers

ClearBatchTimeout(timers, handle) == timers \ {handle}

\* Only reload bypasses the queue.
ImmediateReloadOnly(type) == type = "reload"

\* message.type === "reload" || message.type === "error"
Immediate(type) == type = "reload" \/ type = "error"

\* location.reload(): the page is loaded again and its script starts over
\* with a new client and a new status UI.
PageReloads ==
    /\ reloads' = reloads + 1
    /\ updateQueue' = <<>>
    /\ queueTimer' = 0
    /\ batchTimers' = {}
    /\ loadingModules' = 0
    /\ recorded' = [updates |-> 0, successes |-> 0, failures |-> 0]

RecordUpdate(success) ==
    [updates |-> recorded.updates + 1,
     successes |-> recorded.successes + (IF success THEN 1 ELSE 0),
     failures |-> recorded.failures + (IF success THEN 0 ELSE 1)]

\* handleMessage(message), called by ws.onmessage.
HandleMessage(message) ==
    /\ inbound < MaxInbound
    /\ inbound' = inbound + 1
    /\ lastInbound' = <<message>>
    /\ IF Immediate(message.type) /\ message.type = "reload"
       THEN /\ PageReloads
            /\ UNCHANGED nextBatchTimerId
       ELSE IF Immediate(message.type) /\ message.type = "error"
       THEN /\ recorded' = RecordUpdate(FALSE)
            /\ UNCHANGED <<updateQueue, queueTimer, batchTimers,
                           nextBatchTimerId, loadingModules, reloads>>
       ELSE \* addToQueue
            /\ updateQueue' = Append(updateQueue, message)
            /\ batchTimers' =
                  (IF queueTimer # 0
                   THEN ClearBatchTimeout(batchTimers, queueTimer)
                   ELSE batchTimers) \cup {nextBatchTimerId}
            /\ queueTimer' = nextBatchTimerId
            /\ nextBatchTimerId' = nextBatchTimerId + 1
            /\ UNCHANGED <<loadingModules, recorded, reloads>>
    /\ UNCHANGED <<tab, styleUpdates, hotAccepts, events, lastHandled,
                   handledCount>>

\* The batch timer's callback: processQueue(), mergeUpdates and
\* handleMergedUpdate.
ProcessQueue(timer) ==
    /\ timer \in batchTimers
    /\ IF Len(updateQueue) = 0
       THEN /\ batchTimers' = batchTimers \ {timer}
            /\ UNCHANGED <<updateQueue, queueTimer, loadingModules, recorded,
                           reloads, styleUpdates, hotAccepts, events,
                           lastHandled, handledCount>>
       ELSE LET merged == MergeUpdates(updateQueue)
                outcome == HandleMergedOutcome(merged)
            IN  /\ lastHandled' = <<[type |-> merged.type,
                                     route |-> merged.route,
                                     outcome |-> outcome,
                                     batch |-> Len(updateQueue)]>>
                /\ handledCount' = handledCount + 1
                /\ IF outcome = "reload"
                   THEN PageReloads
                   ELSE /\ updateQueue' = <<>>
                        /\ queueTimer' = 0
                        /\ batchTimers' =
                              ClearBatchTimeout(batchTimers \ {timer},
                                                queueTimer)
                        /\ loadingModules' =
                              IF outcome = "load-modules"
                              THEN loadingModules + 1 ELSE loadingModules
                        /\ recorded' = IF outcome = "css"
                                       THEN RecordUpdate(TRUE) ELSE recorded
                        /\ UNCHANGED reloads
                /\ styleUpdates' = IF outcome = "css"
                                   THEN styleUpdates + 1 ELSE styleUpdates
                /\ hotAccepts' = IF outcome = "hot-accept"
                                 THEN hotAccepts + 1 ELSE hotAccepts
                /\ events' = IF outcome = "component-event"
                             THEN Append(events, "hmr:component-update")
                             ELSE events
    /\ UNCHANGED <<tab, nextBatchTimerId, inbound, lastInbound>>

\* loadUpdatedModules settles: a failed import is rolled back and reported
\* without a reload, then "hmr:update" is dispatched.
ModulesLoaded ==
    /\ loadingModules > 0
    /\ loadingModules' = loadingModules - 1
    /\ events' = Append(events, "hmr:update")
    /\ UNCHANGED <<tab, updateQueue, queueTimer, batchTimers,
                   nextBatchTimerId, recorded, inbound, reloads,
                   styleUpdates, hotAccepts, lastHandled, lastInbound,
                   handledCount>>

UpdCommonInit ==
    /\ updateQueue = <<>>
    /\ queueTimer = 0
    /\ batchTimers = {}
    /\ nextBatchTimerId = 1
    /\ loadingModules = 0
    /\ recorded = [updates |-> 0, successes |-> 0, failures |-> 0]
    /\ inbound = 0
    /\ reloads = 0
    /\ styleUpdates = 0
    /\ hotAccepts = 0
    /\ events = <<>>
    /\ lastHandled = NoResult
    /\ lastInbound = NoResult
    /\ handledCount = 0

\* The tab shows /user/123.
UpdInit ==
    /\ tab \in [current : {RouteUser123}, fromRender : BOOLEAN,
                hmrApi : HmrApis]
    /\ UpdCommonInit

UpdIdle ==
    /\ tab = [current |-> RouteUser123, fromRender |-> FALSE,
              hmrApi |-> "none"]
    /\ UpdCommonInit

DoHandleMessage ==
    /\ \E message \in InboundMessages : HandleMessage(message)
    /\ UNCHANGED nonUpdVars

DoProcessQueue ==
    /\ \E timer \in batchTimers : ProcessQueue(timer)
    /\ UNCHANGED nonUpdVars

DoModulesLoaded == ModulesLoaded /\ UNCHANGED nonUpdVars

UpdNext ==
    \/ DoHandleMessage
    \/ DoProcessQueue
    \/ DoModulesLoaded

(***************************************************************************)
(* HMRClient: loading the files of an update, backup and rollback          *)
(***************************************************************************)
FileB == <<"p", ".", "j", "s">>

FileMap == <<"o", ".", "m", "a", "p">>

JsFiles == {FileJs, FileB}

\* message.files of an update: the paths of its files.
UpdateFiles ==
    {<<FileJs>>, <<FileB>>, <<FileJs, FileB>>, <<FileMap, FileJs>>,
     <<FileB, FileMap>>, <<FileMap>>}

\* The values a module cache holds for a module; 0 stands for no entry.
ModuleRefs == {1, 2}

\* Calls of loadUpdatedModules in one run.
MaxLoads == 2

\* updateHistory keeps the last 100 records.
maxUpdateHistory == 100

\* file.path.endsWith(".js") || file.path.endsWith(".mjs")
IsLoadable(path) ==
    EndsWith(path, <<".", "j", "s">>) \/ EndsWith(path, <<".", "m", "j", "s">>)

\* backupModule(moduleId) on a page whose module cache is `cache`: the
\* backups afterwards.
BackupModule(cache, backups, moduleId) ==
    IF cache # <<>> /\ cache[1][moduleId] # 0
    THEN MapSet(backups, moduleId, cache[1][moduleId])
    ELSE backups

\* A rollback that finds the backup and leaves the cache as it is.
RollbackModuleKeeps(moduleId) == moduleCache

\* rollbackModule(moduleId): the module cache afterwards.  A backup exists
\* only on a page that has a module cache.
RollbackModule(moduleId) ==
    IF moduleId \notin DOMAIN moduleBackups
    THEN moduleCache
    ELSE IF moduleCache # <<>>
    THEN <<[moduleCache[1] EXCEPT ![moduleId] = moduleBackups[moduleId]]>>
    ELSE moduleCache

\* this.recordUpdate(moduleId, success)
RecordModuleUpdate(moduleId, success) ==
    LET pushed == Append(updateHistory,
                         [moduleId |-> moduleId, success |-> success])
    IN  IF Len(pushed) > maxUpdateHistory THEN Tail(pushed) ELSE pushed

\* The index of the first loadable file at or after i, Len(files) + 1 when
\* there is none.
RECURSIVE NextLoadable(_, _)
NextLoadable(files, i) ==
    IF i > Len(files) \/ IsLoadable(files[i]) THEN i
    ELSE NextLoadable(files, i + 1)

\* The loop of loadUpdatedModules from file i up to its next await, or to
\* its end, where "hmr:update" is dispatched.
LoadFrom(cache, files, i, failedModules) ==
    LET j == NextLoadable(files, i)
    IN  IF j > Len(files)
        THEN /\ loading' = <<>>
             /\ events' = Append(events, "hmr:update")
             /\ UNCHANGED moduleBackups
        ELSE /\ moduleBackups' = BackupModule(cache, moduleBackups, files[j])
             /\ loading' = <<[files |-> files, next |-> j,
                              moduleIds |-> SelectSeq(SubSeq(files, 1, j),
                                                      IsLoadable),
                              failedModules |-> failedModules]>>
             /\ UNCHANGED events

LoadUnchanged ==
    UNCHANGED <<tab, updateQueue, queueTimer, batchTimers, nextBatchTimerId,
                loadingModules, recorded, inbound, reloads, styleUpdates,
                hotAccepts, lastHandled, lastInbound, handledCount>>

\* loadUpdatedModules(files), up to its first await.
LoadUpdatedModules(files) ==
    /\ loading = <<>>
    /\ loadCalls < MaxLoads
    /\ loadCalls' = loadCalls + 1
    /\ LoadFrom(moduleCache, files, 1, <<>>)
    /\ UNCHANGED <<moduleCache, notifications, updateHistory>>
    /\ LoadUnchanged

\* The awaited import() resolves.
ImportResolves ==
    /\ loading # <<>>
    /\ LET call == loading[1]
       IN  /\ updateHistory' = RecordModuleUpdate(call.files[call.next], TRUE)
           /\ LoadFrom(moduleCache, call.files, call.next + 1,
                       call.failedModules)
    /\ UNCHANGED <<moduleCache, loadCalls, notifications>>
    /\ LoadUnchanged

\* The awaited import() rejects: the catch block, then the rest of the loop,
\* whose next backupModule reads the cache as the rollback left it.
ImportRejects ==
    /\ loading # <<>>
    /\ LET call == loading[1]
           moduleId == call.files[call.next]
           rolledBack == RollbackModule(moduleId)
       IN  /\ updateHistory' = RecordModuleUpdate(moduleId, FALSE)
           /\ moduleCache' = rolledBack
           /\ notifications' = notifications + 1
           /\ LoadFrom(rolledBack, call.files, call.next + 1,
                       Append(call.failedModules, moduleId))
    /\ UNCHANGED loadCalls
    /\ LoadUnchanged

\* The application's framework registers, replaces or drops a module in
\* the page's module cache.
CacheChanges(moduleId, ref) ==
    /\ moduleCache # <<>>
    /\ moduleCache[1][moduleId] # ref
    /\ moduleCache' = <<[moduleCache[1] EXCEPT ![moduleId] = ref]>>
    /\ UNCHANGED <<moduleBackups, loading, loadCalls, notifications,
                   updateHistory, events>>
    /\ LoadUnchanged

LoadCommonInit ==
    /\ moduleBackups = EmptyMap
    /\ loading = <<>>
    /\ loadCalls = 0
    /\ notifications = 0
    /\ updateHistory = <<>>

\* The page has no module cache, or one with any entries.
LoadInit ==
    /\ moduleCache \in {<<>>} \cup
          {<<c>> : c \in [JsFiles -> ModuleRefs \cup {0}]}
    /\ LoadCommonInit

LoadIdle ==
    /\ moduleCache = <<>>
    /\ LoadCommonInit

DoLoadUpdatedModules ==
    /\ \E files \in UpdateFiles : LoadUpdatedModules(files)
    /\ UNCHANGED nonLoadVars

DoImportResolves == ImportResolves /\ UNCHANGED nonLoadVars

DoImportRejects == ImportRejects /\ UNCHANGED nonLoadVars

DoCacheChanges ==
    /\ \E moduleId \in JsFiles, ref \in ModuleRefs \cup {0} :
          CacheChanges(moduleId, ref)
    /\ UNCHANGED nonLoadVars

LoadNext ==
    \/ DoLoadUpdatedModules
    \/ DoImportResolves
    \/ DoImportRejects
    \/ DoCacheChanges

(***************************************************************************)
(* The watch loop of a project together with one tab that receives what    *)
(* the server broadcasts                                                   *)
(***************************************************************************)
\* Files of the project that change in one run.
MaxProjectEvents == 1

DoProjectChange ==
    /\ watchEvents < MaxProjectEvents
    /\ \E path \in ProjectPaths : WatchEvent("modify", <<path>>)
    /\ UNCHANGED nonWatchVars

\* ws.onmessage for the next broadcast message, in the order of sending.
\* result.outputFiles of a rebuild is whatever the Builder returned.
DoDeliver ==
    /\ inbound < Len(broadcasts)
    /\ LET m == broadcasts[inbound + 1]
           rebuilt == hasBuilder /\ m.type # "error"
       IN  \E files \in (IF rebuilt THEN {<<>>, <<FileJs>>} ELSE {<<>>}) :
              HandleMessage(
                 ClientMsg(m.type,
                           IF "path" \in DOMAIN m THEN m.path ELSE <<>>,
                           files,
                           IF "route" \in DOMAIN m THEN m.route ELSE <<>>))
    /\ UNCHANGED nonUpdVars

\* The tab shows /user/123 or the site's root.
TabInit ==
    /\ tab \in [current : {RouteUser123, <<"/">>}, fromRender : BOOLEAN,
                hmrApi : HmrApis]
    /\ UpdCommonInit

SettleNext ==
    \/ DoProjectChange
    \/ DoTick
    \/ DoTimerFires
    \/ DoRebuildResolves
    \/ DoRebuildRejects
    \/ DoDeliver
    \/ DoProcessQueue
    \/ DoModulesLoaded

(***************************************************************************)
(* Evaluations of the client's pure functions                              *)
(***************************************************************************)
\* Longest route string enumerated, and the characters it is made of.
MaxRouteLen == 3
RouteChars == {"/", ":", "*", "a"}

RouteStrings ==
    UNION {[1..n -> RouteChars] : n \in 0..MaxRouteLen}
        \cup {RouteUser123, RouteUserId, RoutePost1}

\* location.pathname always starts with "/".
CurrentPaths == {s \in RouteStrings : StartsWith(s, <<"/">>)}

RouteInit ==
    routeCall \in [current : CurrentPaths, fromRender : BOOLEAN,
                   route : RouteStrings, result : {NoResult}]

RouteIdle ==
    routeCall = [current |-> <<"/">>, fromRender |-> FALSE,
                 route |-> <<>>, result |-> NoResult]

\* The tab shows routeCall.current; with fromRender the renderer has
\* injected __RENDER_DATA__.loadContext.url for it.
EvalIsCurrentRoute ==
    /\ routeCall.result = NoResult
    /\ routeCall' = [routeCall EXCEPT !.result =
          <<IsCurrentRoute(IF routeCall.fromRender
                           THEN routeCall.current ELSE <<>>,
                           routeCall.current, routeCall.route)>>]

DoIsCurrentRoute == EvalIsCurrentRoute /\ UNCHANGED nonRouteVars

RouteNext == DoIsCurrentRoute

\* The paths the inferrer is applied to: directory, subdirectory, file name
\* and extension.
InferDirs ==
    {<<"p", "a", "g", "e", "s", "/">>,
     <<"r", "o", "u", "t", "e", "s", "/">>,
     <<"a", "p", "p", "/">>,
     <<"c", "o", "m", "p", "o", "n", "e", "n", "t", "s", "/">>,
     <<"u", "t", "i", "l", "s", "/">>}

InferSubdirs ==
    {<<>>,
     <<"u", "s", "e", "r", "/">>,
     <<"d", "o", "c", "s", "/">>,
     <<"a", "d", "m", "i", "n", "/">>,
     <<"p", "o", "s", "t", "/">>,
     <<"(", "a", "u", "t", "h", ")", "/">>,
     <<"a", "b", "o", "u", "t", "/">>,
     <<"d", "a", "s", "h", "b", "o", "a", "r", "d", "/">>,
     <<"p", "a", "g", "e", "s", "/">>}

InferNames ==
    {<<"i", "n", "d", "e", "x">>,
     <<"l", "o", "g", "i", "n">>,
     <<"h", "e", "l", "p", "e", "r">>,
     <<"[", "i", "d", "]">>,
     <<"[", "[", "i", "d", "]", "]">>,
     <<"[", ".", ".", ".", "s", "l", "u", "g", "]">>,
     <<"[", "[", ".", ".", ".", "s", "l", "u", "g", "]", "]">>,
     <<"l", "a", "y", "o", "u", "t">>,
     <<"_", "l", "a", "y", "o", "u", "t">>,
     <<"p", "a", "g", "e">>}

InferExts ==
    {<<".", "t", "s", "x">>,
     <<".", "t", "s">>,
     <<".", "v", "u", "e">>,
     <<".", "c", "s", "s">>}

InferPaths ==
    {d \o b \o n \o e :
        d \in InferDirs, b \in InferSubdirs, n \in InferNames, e \in InferExts}

InferInit == inferCall \in [path : InferPaths, result : {NoResult}]

InferIdle == inferCall = [path |-> <<>>, result |-> NoResult]

EvalInferRoute ==
    /\ inferCall.result = NoResult
    /\ inferCall' = [inferCall EXCEPT !.result =
          <<[route |-> InferRoute(inferCall.path),
             layout |-> IsLayoutFile(inferCall.path),
             page |-> IsPageFile(inferCall.path),
             component |-> IsComponentFile(inferCall.path)]>>]

DoInferRoute == EvalInferRoute /\ UNCHANGED nonInferVars

InferNext == DoInferRoute

\* Longest batch handed to mergeUpdates.
MaxBatch == 3

MessageTypes == {"reload", "error", "css-update", "component-update",
                 "layout-update", "module-update", "update"}
\* What a message of a batch carries besides its type.
MergeShapes ==
    {[path |-> <<"a">>, files |-> <<"f">>, route |-> <<"/", "x">>],
     [path |-> <<"b">>, files |-> <<"g">>, route |-> <<"/", "y">>],
     [path |-> <<"a">>, files |-> <<>>, route |-> <<"/", "y">>],
     [path |-> <<>>, files |-> <<>>, route |-> <<>>]}

MergeMessages ==
    {ClientMsg(type, shape.path, shape.files, shape.route) :
        type \in MessageTypes, shape \in MergeShapes}

MergeBatches == UNION {[1..n -> MergeMessages] : n \in 1..MaxBatch}

MergeInit == mergeCall \in [messages : MergeBatches, result : {NoResult}]

MergeIdle ==
    mergeCall = [messages |-> <<ClientMsg("update", <<>>, <<>>, <<>>)>>,
                 result |-> NoResult]

EvalMergeUpdates ==
    /\ mergeCall.result = NoResult
    /\ mergeCall' = [mergeCall EXCEPT
                        !.result = <<MergeUpdates(mergeCall.messages)>>]

DoMergeUpdates == EvalMergeUpdates /\ UNCHANGED nonMergeVars

MergeNext == DoMergeUpdates

(***************************************************************************)
(* Specifications                                                          *)
(***************************************************************************)
\* The dependency graph driven by its callers; the watcher is idle.
\* The messages that name no route.
QueueFeed == {message \in InboundMessages : ~Truthy(message.route)}

DoQueueMessage ==
    /\ \E message \in QueueFeed : HandleMessage(message)
    /\ UNCHANGED nonUpdVars

QueueNext ==
    \/ DoQueueMessage
    \/ DoProcessQueue
    \/ DoModulesLoaded

(***************************************************************************)
(* One tab: its connection, its queue and the server it talks to           *)
(***************************************************************************)
nonClientVars == <<graphVars, watchVars, pureVars, monVars, sockVars,
                   loadVars, recentCall>>

\* The messages the server sends over an open socket.
ClientFeed ==
    {ClientMsg("css-update", PathCss, <<>>, <<>>),
     ClientMsg("component-update", PathPage, <<>>, <<>>),
     ClientMsg("update", PathPage, <<FileJs>>, <<>>)}

\* location.reload() seen from the connection: the old page's socket and
\* timers are gone and the new page's client is as constructed.
NewPageConnection ==
    /\ ws' = "null"
    /\ reconnectTimer' = 0
    /\ reconnectAttempts' = 0
    /\ reconnectDelay' = initialReconnectDelay
    /\ clientTimers' = {}
    /\ nextClientTimerId' = 1
    /\ connectionStatus' = "none"
    /\ viaTimer' = FALSE
    /\ lossStreak' = 0
    /\ failedStreak' = 0
    /\ UNCHANGED connectCalls

\* An attempt can fail only while the server does not accept.
AttemptOutcomes == IF serverAccepts THEN {FALSE} ELSE BOOLEAN

\* initHMR: client.connect() once the page has loaded.
DoInitHMR ==
    /\ \E throws \in AttemptOutcomes : ExternalConnect(throws)
    /\ UNCHANGED nonConnVars

DoReconnect ==
    /\ \E t \in clientTimers, throws \in AttemptOutcomes :
          ReconnectTimerFires(t, throws)
    /\ UNCHANGED nonConnVars

\* The handshake completes.
DoHandshake == serverAccepts /\ WsOpen /\ UNCHANGED nonConnVars

\* The handshake fails, or an established connection is lost.
DoConnectionLost ==
    /\ ws = "open" \/ ~serverAccepts
    /\ WsClose
    /\ UNCHANGED nonConnVars

\* ws.onmessage on the open socket.
DoOnMessage ==
    /\ ws = "open"
    /\ \E message \in ClientFeed : HandleMessage(message)
    /\ IF reloads' # reloads THEN NewPageConnection ELSE UNCHANGED connVars
    /\ UNCHANGED <<nonClientVars, serverAccepts>>

DoBatchTimerFires ==
    /\ \E timer \in batchTimers : ProcessQueue(timer)
    /\ IF reloads' # reloads THEN NewPageConnection ELSE UNCHANGED connVars
    /\ UNCHANGED <<nonClientVars, serverAccepts>>

DoServerStops ==
    /\ serverAccepts
    /\ serverAccepts' = FALSE
    /\ UNCHANGED <<nonClientVars, connVars, updVars>>

DoServerStarts ==
    /\ ~serverAccepts
    /\ serverAccepts' = TRUE
    /\ UNCHANGED <<nonClientVars, connVars, updVars>>

RecoverNext ==
    \/ DoInitHMR
    \/ DoReconnect
    \/ DoHandshake
    \/ DoWsError
    \/ DoConnectionLost
    \/ DoServerStops
    \/ DoServerStarts

ClientNext ==
    \/ DoInitHMR
    \/ DoReconnect
    \/ DoHandshake
    \/ DoWsError
    \/ DoConnectionLost
    \/ DoOnMessage
    \/ DoBatchTimerFires
    \/ DoModulesLoaded
    \/ DoServerStops
    \/ DoServerStarts

ClientIdle == ConnInit /\ RouteIdle /\ MergeIdle /\ UpdIdle /\ InferIdle
                 /\ LoadIdle

InitGraph == GraphInit /\ WatchInit /\ hasBuilder /\ ClientIdle

SpecGraph == InitGraph /\ [][GraphNext]_vars

\* The file maps driven by callers that pair ids and paths freely.
InitRegister == GraphInit /\ WatchInit /\ hasBuilder /\ ClientIdle

SpecRegister == InitRegister /\ [][RegisterNext]_vars

\* The watch loop, with and without a Builder; the graph stays empty.
InitWatch == GraphInit /\ WatchInit /\ ClientIdle

SpecWatch == InitWatch /\ [][WatchNext]_vars

\* Everything else idle.
ServerIdle == GraphInit /\ WatchInit /\ hasBuilder

\* The client's connection: sockets open, fail and close at will.
InitConn == ServerIdle /\ ConnInit /\ RouteIdle /\ MergeIdle /\ UpdIdle /\ InferIdle
                /\ LoadIdle

SpecConn == InitConn /\ [][ConnNext]_vars

\* isCurrentRoute applied to every current path and message route.
InitRoute == ServerIdle /\ ConnInit /\ RouteInit /\ MergeIdle /\ UpdIdle /\ InferIdle
                /\ LoadIdle

SpecRoute == InitRoute /\ [][RouteNext]_vars

\* mergeUpdates applied to every batch.
InitMerge == ServerIdle /\ ConnInit /\ RouteIdle /\ MergeInit /\ UpdIdle /\ InferIdle
                /\ LoadIdle

SpecMerge == InitMerge /\ [][MergeNext]_vars

\* One tab receiving messages over an open socket.
InitUpd == ServerIdle /\ ConnInit /\ RouteIdle /\ MergeIdle /\ UpdInit /\ InferIdle
                /\ LoadIdle

SpecUpd == InitUpd /\ [][UpdNext]_vars

\* The queue of one tab; a batch timer that is due runs.
InitQueue == ServerIdle /\ ClientIdle

SpecQueue == InitQueue /\ [][QueueNext]_vars /\ WF_vars(DoProcessQueue)

\* The connection of one tab and a server that stops and starts; a
\* reconnect timer that is due runs, and a handshake with a server that
\* accepts completes.
InitRecover == ServerIdle /\ ClientIdle

SpecRecover ==
    /\ InitRecover
    /\ [][RecoverNext]_vars
    /\ WF_vars(DoReconnect)
    /\ WF_vars(DoHandshake)

\* One tab with its connection and its queue.
InitClient == ServerIdle /\ ClientIdle

SpecClient == InitClient /\ [][ClientNext]_vars

\* The watch loop together with the sockets, the heartbeat and stop().
InitServer == GraphInit /\ WatchInit /\ ClientIdle

SpecServer == InitServer /\ [][ServerNext]_vars

\* The WebSocketManager alone: sockets come and go, close() is called at
\* will.
InitChannel == ServerIdle /\ ClientIdle

SpecChannel == InitChannel /\ [][ChannelNext]_vars

\* The watch loop with a Builder that registers and removes modules while
\* files change and rebuilds run.
InitAssemble == GraphInit /\ WatchInit /\ hasBuilder /\ ClientIdle

SpecAssemble == InitAssemble /\ [][AssembleNext]_vars

\* The inferrer applied to every path.
InitInfer == ServerIdle /\ ConnInit /\ RouteIdle /\ MergeIdle /\ UpdIdle
                /\ InferInit /\ LoadIdle

SpecInfer == InitInfer /\ [][InferNext]_vars

\* The watch loop over the files of a project, with and without a Builder,
\* and a tab receiving every message.
InitSettle == GraphInit /\ WatchInit /\ ConnInit /\ RouteIdle /\ MergeIdle
                 /\ TabInit /\ InferIdle /\ LoadIdle

SpecSettle == InitSettle /\ [][SettleNext]_vars

\* loadUpdatedModules on a page with and without a module cache.
InitLoad == ServerIdle /\ ConnInit /\ RouteIdle /\ MergeIdle /\ UpdIdle
               /\ InferIdle /\ LoadInit

SpecLoad == InitLoad /\ [][LoadNext]_vars

\* The monitor alone, every outcome and duration drawn freely.
InitStats == ServerIdle /\ ClientIdle

SpecStats == InitStats /\ [][StatsNext]_vars

\* The monitor alone, asked for its recent samples at any time.
InitRecent == ServerIdle /\ ClientIdle

SpecRecent == InitRecent /\ [][RecentNext]_vars

\* The monitor alone, over a series longer than its capacity.
InitSeries == ServerIdle /\ ClientIdle

SpecSeries == InitSeries /\ [][SeriesNext]_vars

(***************************************************************************)
(* Properties of the watch loop                                            *)
(***************************************************************************)
PendingFor(p) == {t \in liveTimers : t.path = p}

\* C1: with a Builder, every burst of events for a non-ignored path (each
\* event less than DebounceMs after the previous one) leads to exactly one
\* rebuild for that path, not started while the last event of the burst is
\* younger than DebounceMs; bursts for distinct paths are counted apart.
C1_OneRebuildPerBurst ==
    hasBuilder =>
        \A p \in WatchKeys :
            ~IsIgnored(p) =>
                /\ rebuildCount[p] =
                      burstCount[p] - (IF PendingFor(p) # {} THEN 1 ELSE 0)
                /\ eventAge[p] < DebounceMs => PendingFor(p) # {}

\* A burst of two events for one path and one event for another path have
\* each ended in one rebuild.
C1_Witness ==
    /\ hasBuilder
    /\ eventCount[PathA] >= 2 /\ burstCount[PathA] = 1
    /\ rebuildCount[PathA] = 1
    /\ eventCount[PathB] = 1 /\ rebuildCount[PathB] = 1

(***************************************************************************)
(* Properties of ModuleGraphManager                                        *)
(***************************************************************************)
SetAt(map, k) == IF k \in DOMAIN map THEN map[k] ELSE {}

\* The ids reachable from `start` over dependents edges, zero or more steps.
RECURSIVE ReverseClosure(_, _)
ReverseClosure(dpts, S) ==
    LET N == S \cup UNION {SetAt(dpts, s) : s \in S}
    IN  IF N = S THEN S ELSE ReverseClosure(dpts, N)

\* C2: on a graph built by addModule calls only, getAffectedModules(f) for a
\* registered file f returns, without repetition, exactly the ids reachable
\* from f's module over dependents edges (f's module included).
C2_AffectedIsReverseClosure ==
    (/\ graphAddOnly
     /\ graphOp.op = "getAffectedModules"
     /\ graphOp.file \in DOMAIN fileToModule)
    => /\ NoDuplicates(graphOp.result)
       /\ Range(graphOp.result) =
             ReverseClosure(dependents, {fileToModule[graphOp.file]})

\* C3: the adjacency maps mirror each other: B is in the forward set of A
\* if and only if A is in the dependents set of B.
C3_EdgesMirrored ==
    \A a, b \in ModuleIds :
        (b \in SetAt(dependencies, a)) <=> (a \in SetAt(dependents, b))

C3_Witness ==
    /\ graphOp.op = "removeModule"
    /\ \E a, b \in ModuleIds :
          a # b /\ b \in SetAt(dependencies, a) /\ a \in SetAt(dependents, b)

\* C4: moduleToFile and fileToModule are inverse of each other.
C4_FileModuleBijection ==
    \A m \in ModuleIds, f \in GraphFiles :
        (f \in DOMAIN fileToModule /\ fileToModule[f] = m)
        <=> (m \in DOMAIN moduleToFile /\ moduleToFile[m] = f)

\* C5: a removeModule(m) step leaves m neither a key nor a member of any
\* set of either adjacency map, and leaves no empty set that was not
\* already empty before the call.
NoResidue(map, mapAfter, m) ==
    /\ m \notin DOMAIN mapAfter
    /\ \A k \in DOMAIN mapAfter :
          /\ m \notin mapAfter[k]
          /\ mapAfter[k] = {} => (k \in DOMAIN map /\ map[k] = {})

C5_RemoveLeavesNoResidue ==
    [][graphOp'.op = "removeModule" =>
          /\ NoResidue(dependencies, dependencies', graphOp'.id)
          /\ NoResidue(dependents, dependents', graphOp'.id)]_vars

\* removeModule(m) has run on a module that had both a dependency and a
\* dependent, and other edges are still in the graph.
C5_Witness ==
    /\ graphOp.op = "removeModule"
    /\ graphOp.id \notin DOMAIN moduleToFile
    /\ dependencies # EmptyMap
    /\ dependents # EmptyMap

(***************************************************************************)
(* Properties of HMRClient                                                 *)
(***************************************************************************)
\* The truthy value of a scalar field, as a set.
Carried(value) == IF Truthy(value) THEN {value} ELSE {}

\* C6: mergeUpdates over a batch of two or more messages returns a message
\* whose type is that of the batch message with the lowest priority number,
\* and which carries the union of the batch's paths, files and routes.
C6_MergeCarriesUnion ==
    (mergeCall.result # NoResult /\ Len(mergeCall.messages) >= 2) =>
        LET batch == mergeCall.messages
            merged == mergeCall.result[1]
        IN  /\ \E i \in DOMAIN batch :
                  /\ merged.type = batch[i].type
                  /\ \A j \in DOMAIN batch :
                        Priority(batch[i].type) <= Priority(batch[j].type)
            /\ Carried(merged.path) =
                  UNION {Carried(batch[i].path) : i \in DOMAIN batch}
            /\ Range(merged.files) =
                  UNION {Range(batch[i].files) : i \in DOMAIN batch}
            /\ Carried(merged.route) =
                  UNION {Carried(batch[i].route) : i \in DOMAIN batch}

\* Segment-wise matching of a message route against the current route:
\* equal number of segments, and every route segment is a :param, a * or
\* equal to the current segment at its position.
SegmentWiseMatch(current, route) ==
    LET c == SplitSegments(current)
        r == SplitSegments(route)
    IN  /\ Len(c) = Len(r)
        /\ \A i \in DOMAIN r :
              r[i][1] = ":" \/ r[i] = <<"*">> \/ r[i] = c[i]

\* C7: a message route matches the tab's current route exactly when the two
\* match segment-wise, wherever the current route is taken from.
C7_RouteMatchIsSegmentWise ==
    routeCall.result # NoResult =>
        routeCall.result[1] =
            SegmentWiseMatch(routeCall.current, routeCall.route)

\* The batch timer has just handled a merged update.
BatchHandled ==
    /\ inbound' = inbound
    /\ updateQueue # <<>>
    /\ updateQueue' = <<>>
    /\ lastHandled' # NoResult

\* C8: when the merged update carries a route that does not match the
\* route the tab shows, handling it neither reloads nor mutates the tab,
\* whatever its type.
C8_MismatchedRouteDropped ==
    [][(/\ BatchHandled
        /\ lastHandled'[1].type \in {"update", "component-update",
                                     "layout-update", "module-update",
                                     "css-update"}
        /\ Truthy(lastHandled'[1].route)
        /\ ~SegmentWiseMatch(tab.current, lastHandled'[1].route))
       => /\ reloads' = reloads
          /\ styleUpdates' = styleUpdates
          /\ hotAccepts' = hotAccepts
          /\ events' = events
          /\ loadingModules' = loadingModules]_vars

\* min(1000 * 1.5^(k-1), 30000) for k = 1..10, in units of 1/DelayScale ms:
\* 1000, 1500, 2250, 3375, 5062.5, 7593.75, 11390.625, 17085.9375,
\* 25628.90625 and 30000 (38443.359375 capped).
ExpectedDelays ==
    <<1000 * DelayScale, 1500 * DelayScale, 2250 * DelayScale,
      3375 * DelayScale, 10125 * (DelayScale \div 2),
      30375 * (DelayScale \div 4), 91125 * (DelayScale \div 8),
      273375 * (DelayScale \div 16), 820125 * (DelayScale \div 32),
      30000 * DelayScale>>

\* C9: the reconnect timer scheduled at the k-th consecutive connection
\* loss has delay min(1000 * 1.5^(k-1), 30000) ms; the delays are
\* non-decreasing in k and never above 30000 ms.
C9_BackoffDelays ==
    /\ \A t \in clientTimers :
          /\ lossStreak \in 1..10
          /\ t.delay = ExpectedDelays[lossStreak]
          /\ t.delay <= 30000 * DelayScale
    /\ \A k \in 1..9 : ExpectedDelays[k] <= ExpectedDelays[k + 1]

\* The tenth consecutive loss has scheduled a reconnection at the cap.
C9_Witness ==
    /\ lossStreak = 10
    /\ \E t \in clientTimers : t.delay = 30000 * DelayScale

\* C10: the attempt counter never exceeds 10; once 10 consecutive
\* reconnection attempts have failed the client has no socket and no
\* pending reconnect timer, and the next connect() is not made by a timer.
C10_GivesUpAfterTen ==
    /\ [](/\ reconnectAttempts <= 10
          /\ failedStreak <= 10
          /\ failedStreak = 10 => (clientTimers = {} /\ ws = "null"))
    /\ [][failedStreak = 10 =>
             (connectCalls' = connectCalls \/ ~viaTimer')]_vars

\* Ten reconnection attempts in a row have failed and the client gave up.
C10_Witness ==
    /\ failedStreak = 10
    /\ connectCalls = 11
    /\ clientTimers = {}
    /\ ws = "null"

\* C11: while a socket is open the attempt counter is 0 and the base delay
\* is 1000 ms, and the loss of an open socket schedules the first
\* reconnection with delay 1000 ms as attempt 1 of 10.
C11_OpenResetsBackoff ==
    /\ [](ws = "open" =>
             /\ reconnectAttempts = 0
             /\ reconnectDelay = 1000
             /\ clientTimers = {})
    /\ [][(ws = "open" /\ ws' = "null") =>
             /\ reconnectAttempts' = 1
             /\ Cardinality(clientTimers') = 1
             /\ \A t \in clientTimers' : t.delay = 1000 * DelayScale]_vars

\* A socket opened after several failed attempts has been lost again and
\* its first reconnection is pending.
C11_Witness ==
    /\ ws = "null"
    /\ lossStreak = 1
    /\ connectCalls >= 4
    /\ reconnectAttempts = 1
    /\ \E t \in clientTimers : t.delay = 1000 * DelayScale


(***************************************************************************)
(* Properties of the performance monitor                                   *)
(***************************************************************************)
\* The last k elements of a sequence.
LastOf(seq, k) == SubSeq(seq, Len(seq) - k + 1, Len(seq))

\* C18: the monitor never holds more than 100 samples, and after n closed
\* cycles it holds exactly the min(n, 100) most recently closed samples, in
\* closing order.
C18_KeepsLastHundred ==
    LET n == Len(closedLog)
    IN  /\ Len(metrics) <= 100
        /\ metrics = LastOf(closedLog, IF n < 100 THEN n ELSE 100)

C18_Witness ==
    /\ Len(closedLog) = 150
    /\ Len(metrics) = 100
    /\ metrics[1] = closedLog[51]

\* Number of samples satisfying a predicate.
CountOf(samples, Test(_)) == Len(SelectSeq(samples, Test))

IsSuccess(m) == m.success

IsFailure(m) == ~m.success

\* C19: getStats reports the number of retained samples as totalUpdates,
\* those with success = true as successfulUpdates and those with
\* success = false as failedUpdates, whatever their duration (0 included);
\* average, minimum and maximum are taken over the successful samples only
\* and are 0 when there is none.
C19_StatsCountBySuccess ==
    statsCall # NoResult =>
        LET seen == statsCall[1].of
            stats == statsCall[1].stats
            good == SelectSeq(seen, IsSuccess)
            times == [i \in DOMAIN good |-> good[i].duration]
        IN  /\ stats.totalUpdates = Len(seen)
            /\ stats.successfulUpdates = Len(good)
            /\ stats.failedUpdates = CountOf(seen, IsFailure)
            /\ IF good = <<>>
               THEN /\ stats.averageDuration.num = 0
                    /\ stats.maxDuration = 0
                    /\ stats.minDuration = 0
               ELSE /\ stats.averageDuration.num * Len(good) =
                          SumSeq(times) * stats.averageDuration.den
                    /\ stats.maxDuration = MaxOf(times)
                    /\ stats.minDuration = MinOf(times)

\* Cycles of path p that have settled, and the samples closed for p.
SettledFor(p) == SelectSeq(settled, LAMBDA c : c.path = p)

SamplesFor(p) == SelectSeq(closedLog, LAMBDA m : m.filePaths = <<p>>)

\* C20: every build cycle contributes exactly one sample, whose filePaths
\* is the path of that cycle and whose success is the outcome of that
\* cycle, also when rebuilds of different paths are in flight together.
C20_OneSamplePerCycle ==
    \A p \in WatchKeys :
        /\ Len(SamplesFor(p)) = Len(SettledFor(p))
        /\ \A i \in DOMAIN SettledFor(p) :
              SamplesFor(p)[i].success = SettledFor(p)[i].ok

\* C12: when a rebuild rejects, exactly one message is broadcast for that
\* cycle and it is the error message, the sample of that cycle is recorded
\* with success = false, and the watch loop is left as it was: its pending
\* timers stay registered, so later events are still debounced and rebuilt.
C12_RejectedRebuild ==
    [][(Len(settled') = Len(settled) + 1 /\ ~settled'[Len(settled')].ok) =>
          LET cycle == settled'[Len(settled')]
          IN  /\ broadcasts' = Append(broadcasts, [type |-> "error"])
              /\ Len(closedLog') = Len(closedLog) + 1
              /\ closedLog'[Len(closedLog')].filePaths = <<cycle.path>>
              /\ closedLog'[Len(closedLog')].success = FALSE
              /\ UNCHANGED <<rebuildTimers, liveTimers>>]_vars


(***************************************************************************)
(* Properties of the sockets, the heartbeat and stop()                     *)
(***************************************************************************)
\* C13: broadcast attempts a send on every connection of the set whose
\* state is open and on no other; a send that throws keeps no other open
\* connection from being sent to and does not reach the caller.
C13_BroadcastReachesOpenOnly ==
    lastSend # NoResult =>
        /\ lastSend.attempted =
              {c \in lastSend.among : lastSend.states[c] = "OPEN"}
        /\ lastSend.delivered = lastSend.attempted \ lastSend.threw
        /\ ~lastSend.escaped

C13_Witness ==
    /\ lastSend # NoResult
    /\ lastSend.among = {1, 2}
    /\ lastSend.threw = {1}
    /\ lastSend.delivered = {2}

\* C14: at most one heartbeat timer exists at any time, add() starts one
\* only when none is running, and a heartbeat tick broadcasts one ping when
\* the connection set is not empty and nothing when it is empty.
C14_SingleHeartbeatTimer ==
    /\ [](/\ Cardinality(intervals) <= 1
          /\ heartbeatTimer # 0 => intervals = {heartbeatTimer})
    /\ [][(Len(readyState') = Len(readyState) + 1 /\ intervals # {}) =>
              intervals' = intervals]_vars
    /\ [][heartbeats' = heartbeats + 1 =>
              IF connections = {}
              THEN UNCHANGED <<broadcasts, lastSend>>
              ELSE /\ broadcasts' = Append(broadcasts, [type |-> "ping"])
                   /\ lastSend'.type = "ping"]_vars

C14_Witness ==
    /\ Len(readyState) = 2
    /\ nextIntervalId = 2
    /\ intervals = {1}
    /\ heartbeats = 1
    /\ broadcasts # <<>>
    /\ broadcasts[Len(broadcasts)] = [type |-> "ping"]

\* C15: after stop() every pending debounce timer and the heartbeat timer
\* are cancelled and the timer registry is empty; from then on no rebuild
\* starts and no ping is broadcast (the only messages still broadcast are
\* those of rebuilds that were already running).
C15_NothingAfterStop ==
    /\ [](stopped =>
             /\ liveTimers = {}
             /\ rebuildTimers = EmptyMap
             /\ intervals = {}
             /\ heartbeatTimer = 0)
    /\ [][stopped =>
             /\ rebuildCount' = rebuildCount
             /\ heartbeats' = heartbeats
             /\ broadcasts' # broadcasts => inflight' # inflight]_vars

C15_Witness ==
    /\ stopped
    /\ eventCount[PathA] = 1
    /\ eventAge[PathA] < DebounceMs
    /\ rebuildCount[PathA] = 0
    /\ nextIntervalId = 2
    /\ \E c \in DOMAIN readyState : readyState[c] = "CLOSING"


(***************************************************************************)
(* Properties of the client's message handling                             *)
(***************************************************************************)
\* handleMessage has just been called with a message of one of the types.
Received(types) ==
    /\ inbound' = inbound + 1
    /\ lastInbound'[1].type \in types

QueuedTypes == {"update", "component-update", "layout-update",
                "module-update", "css-update", "connected", "ping"}

\* C17: every message of another type is appended to the queue and
\* restarts the one batch timer; when the timer fires, the whole queue is
\* merged into exactly one handled update and the queue is empty
\* afterwards, so messages that arrive before the timer fires are handled
\* as one update.
C17_OneUpdatePerBatch ==
    /\ [](/\ Cardinality(batchTimers) <= 1
          /\ updateQueue # <<>> => (queueTimer # 0 /\ batchTimers = {queueTimer}))
    /\ [][Received(QueuedTypes) =>
             /\ updateQueue' = Append(updateQueue, lastInbound'[1])
             /\ batchTimers' = {queueTimer'}
             /\ queueTimer' \notin batchTimers
             /\ handledCount' = handledCount]_vars
    /\ [][(inbound' = inbound /\ batchTimers' # batchTimers) =>
             /\ updateQueue # <<>>
             /\ handledCount' = handledCount + 1
             /\ lastHandled'[1].batch = Len(updateQueue)
             /\ lastHandled'[1].type = MergeUpdates(updateQueue).type
             /\ updateQueue' = <<>>]_vars

\* Two messages were queued one after the other and handled as one update.
C17_Witness ==
    /\ inbound = 2
    /\ handledCount = 1
    /\ lastHandled # NoResult
    /\ lastHandled[1].batch = 2
    /\ updateQueue = <<>>


(***************************************************************************)
(* Properties of RouteInferrer                                             *)
(***************************************************************************)
\* The routes stated for the example paths; <<>> stands for undefined.
InferExamples ==
    {[path |-> <<"p", "a", "g", "e", "s", "/", "i", "n", "d", "e", "x", ".", "t", "s", "x">>,
      route |-> <<"/">>],
     [path |-> <<"p", "a", "g", "e", "s", "/", "u", "s", "e", "r", "/", "[", "i", "d", "]", ".", "t", "s", "x">>,
      route |-> <<"/", "u", "s", "e", "r", "/", ":", "i", "d">>],
     [path |-> <<"p", "a", "g", "e", "s", "/", "d", "o", "c", "s", "/", "[", ".", ".", ".", "s", "l", "u", "g", "]", ".", "t", "s", "x">>,
      route |-> <<"/", "d", "o", "c", "s", "/", "*">>],
     [path |-> <<"p", "a", "g", "e", "s", "/", "a", "d", "m", "i", "n", "/", "[", "[", ".", ".", ".", "s", "l", "u", "g", "]", "]", ".", "t", "s", "x">>,
      route |-> <<"/", "a", "d", "m", "i", "n", "/", "*">>],
     [path |-> <<"p", "a", "g", "e", "s", "/", "p", "o", "s", "t", "/", "[", "[", "i", "d", "]", "]", ".", "t", "s", "x">>,
      route |-> <<"/", "p", "o", "s", "t", "/", ":", "i", "d", "?">>],
     [path |-> <<"p", "a", "g", "e", "s", "/", "(", "a", "u", "t", "h", ")", "/", "l", "o", "g", "i", "n", ".", "t", "s", "x">>,
      route |-> <<"/", "l", "o", "g", "i", "n">>],
     [path |-> <<"p", "a", "g", "e", "s", "/", "a", "b", "o", "u", "t", "/", "i", "n", "d", "e", "x", ".", "t", "s", "x">>,
      route |-> <<"/", "a", "b", "o", "u", "t">>],
     [path |-> <<"u", "t", "i", "l", "s", "/", "h", "e", "l", "p", "e", "r", ".", "t", "s">>,
      route |-> <<>>]}

\* C24: inferRoute gives / for pages/index.tsx, /user/:id for
\* pages/user/[id].tsx, /docs/* for pages/docs/[...slug].tsx, /admin/* for
\* pages/admin/[[...slug]].tsx, /post/:id? for pages/post/[[id]].tsx, /login
\* for pages/(auth)/login.tsx, /about for pages/about/index.tsx and
\* undefined for utils/helper.ts, which no rule matches.
C24_InferredRoutes ==
    inferCall.result # NoResult =>
        \A e \in InferExamples :
            inferCall.path = e.path => inferCall.result[1].route = e.route

C24_Witness ==
    /\ inferCall.path = <<"p", "a", "g", "e", "s", "/", "p", "o", "s", "t", "/", "[", "[", "i", "d", "]", "]", ".", "t", "s", "x">>
    /\ inferCall.result # NoResult
    /\ inferCall.result[1].route = <<"/", "p", "o", "s", "t", "/", ":", "i", "d", "?">>

\* C25: for every path at most one of isLayoutFile, isPageFile and
\* isComponentFile is true.
C25_ClassesExclusive ==
    inferCall.result # NoResult =>
        LET r == inferCall.result[1]
        IN  /\ r.layout => ~r.page /\ ~r.component
            /\ r.page => ~r.component

\* A layout file below components/ and pages/ is a layout file only.
C25_Witness ==
    /\ inferCall.path = <<"c", "o", "m", "p", "o", "n", "e", "n", "t", "s", "/", "p", "a", "g", "e", "s", "/", "l", "a", "y", "o", "u", "t", ".", "t", "s", "x">>
    /\ inferCall.result # NoResult
    /\ inferCall.result[1].layout
    /\ ~inferCall.result[1].page
    /\ ~inferCall.result[1].component

LayoutExamples ==
    {<<"p", "a", "g", "e", "s", "/", "l", "a", "y", "o", "u", "t", ".", "t", "s", "x">>,
     <<"p", "a", "g", "e", "s", "/", "_", "l", "a", "y", "o", "u", "t", ".", "t", "s", "x">>,
     <<"p", "a", "g", "e", "s", "/", "l", "a", "y", "o", "u", "t", ".", "t", "s">>,
     <<"p", "a", "g", "e", "s", "/", "l", "a", "y", "o", "u", "t", ".", "v", "u", "e">>,
     <<"a", "p", "p", "/", "d", "a", "s", "h", "b", "o", "a", "r", "d", "/", "l", "a", "y", "o", "u", "t", ".", "t", "s", "x">>}

\* C26: isLayoutFile is true for pages/layout.tsx, pages/_layout.tsx,
\* pages/layout.ts, pages/layout.vue and app/dashboard/layout.tsx, and false
\* for pages/index.tsx.
C26_LayoutFiles ==
    inferCall.result # NoResult =>
        /\ inferCall.path \in LayoutExamples => inferCall.result[1].layout
        /\ inferCall.path = <<"p", "a", "g", "e", "s", "/", "i", "n", "d", "e", "x", ".", "t", "s", "x">> => ~inferCall.result[1].layout

(***************************************************************************)
(* Properties of the messages a settled change produces                    *)
(***************************************************************************)
\* The debounce timers whose callback runs in this step.
FiredTimers ==
    {t \in liveTimers : /\ t.due = 0
                        /\ t \notin liveTimers'
                        /\ watchEvents' = watchEvents
                        /\ stopped' = stopped}

\* The rebuilds that resolve or reject in this step.
SettledNow == inflight \ inflight'

LastBroadcast == broadcasts'[Len(broadcasts')]

OneMoreBroadcast == Len(broadcasts') = Len(broadcasts) + 1

\* The rebuild that settles in this step rejects.
RejectsNow ==
    /\ Len(settled') = Len(settled) + 1
    /\ ~settled'[Len(settled')].ok

\* The change to path p is answered in this step: its timer fires with no
\* Builder, or its rebuild settles.
AnsweredNow(p) ==
    \/ ~hasBuilder /\ \E t \in FiredTimers : t.path = p
    \/ \E b \in SettledNow : b.path = p

ConfigPaths == {p \in ProjectPaths : IsConfigFile(p)}

\* C21 as stated: a settled change to a configuration file always results
\* in one broadcast of type reload, with or without a Builder.
C21_ConfigAlwaysReloads ==
    [][\A p \in ConfigPaths :
          AnsweredNow(p) =>
              OneMoreBroadcast /\ LastBroadcast.type = "reload"]_vars

\* C21 as amended: a settled change to a configuration file results in one
\* broadcast of type reload when there is no Builder or the rebuild
\* resolves, and of type error when the rebuild rejects; no message of
\* type config-update, and none of any other type that names a
\* configuration file, is ever broadcast.
C21_ConfigReloadsUnlessRejected ==
    /\ [](\A i \in DOMAIN broadcasts :
             /\ broadcasts[i].type # "config-update"
             /\ "path" \in DOMAIN broadcasts[i]
                   /\ broadcasts[i].path \in ConfigPaths
                => broadcasts[i].type = "reload")
    /\ [][\A p \in ConfigPaths :
             AnsweredNow(p) =>
                 /\ OneMoreBroadcast
                 /\ LastBroadcast.type =
                       IF RejectsNow THEN "error" ELSE "reload"
                 /\ ~RejectsNow => LastBroadcast.path = p]_vars

\* A resolved rebuild for pages/app.config.ts, which is also under pages/,
\* has been answered with a reload.
C21_Witness ==
    /\ hasBuilder
    /\ Len(settled) = 1
    /\ settled[1] = [path |-> PathPagesConfig, ok |-> TRUE]
    /\ Len(broadcasts) = 1
    /\ broadcasts[1].type = "reload"
    /\ broadcasts[1].path = PathPagesConfig

\* C22: when inferRoute has no route for any path of a batch, the tab does
\* not skip the batch because of its route, whatever route the tab shows.
C22_UnroutedNeverSkipped ==
    [][/\ handledCount' = handledCount + 1
       /\ \A i \in DOMAIN updateQueue :
              InferRoute(updateQueue[i].path) = NoRoute
       => lastHandled'[1].outcome # "skipped"]_vars

\* C30: each debounce timer that fires produces exactly one broadcast.
\* With no Builder the message is sent by the timer's callback: css-update
\* for a stylesheet and reload otherwise, with the path and the route
\* inferRoute gives for it ("/" when it gives none), and no rebuild is
\* started and no sample opened or recorded.  With a Builder nothing is
\* sent until the rebuild settles, and then one message: error when it
\* rejects, and the update message for the path otherwise.  No other step
\* of the watch loop broadcasts.
C30_OneBroadcastPerSettledChange ==
    [][/\ \A t \in FiredTimers :
             IF hasBuilder
             THEN /\ broadcasts' = broadcasts
                  /\ \E b \in inflight' \ inflight : b.path = t.path
             ELSE /\ broadcasts' = Append(broadcasts,
                        [type |-> IF EndsWith(t.path, <<".", "c", "s", "s">>)
                                  THEN "css-update" ELSE "reload",
                         path |-> t.path,
                         route |-> IF InferRoute(t.path) # NoRoute
                                   THEN InferRoute(t.path) ELSE <<"/">>])
                  /\ UNCHANGED <<inflight, rebuildCount, metrics,
                                 currentUpdate>>
       /\ \A b \in SettledNow :
             /\ OneMoreBroadcast
             /\ IF RejectsNow
                THEN LastBroadcast.type = "error"
                ELSE /\ LastBroadcast.type # "error"
                     /\ LastBroadcast.path = b.path
       /\ FiredTimers = {} /\ SettledNow = {}
             => broadcasts' = broadcasts]_vars

\* With no Builder the change to the page of /user/:id has been answered
\* by one reload for that route, and no sample exists.
C30_Witness ==
    /\ ~hasBuilder
    /\ liveTimers = {}
    /\ broadcasts = <<[type |-> "reload", path |-> PathUserPage,
                       route |-> RouteUserId]>>
    /\ metrics = <<>>
    /\ currentUpdate = NoResult

(***************************************************************************)
(* Properties of loadUpdatedModules                                        *)
(***************************************************************************)
\* An import rejects in this step.
ImportFailsNow ==
    /\ loading # <<>>
    /\ Len(updateHistory') = Len(updateHistory) + 1
    /\ ~updateHistory'[Len(updateHistory')].success

\* C23: when the import of a file rejects, the reference recorded in
\* moduleBackups for it, if any, is back in the module cache, one more
\* notification is on the page, the page is not reloaded, and the loop
\* goes on with the next loadable file or, after the last one, dispatches
\* hmr:update; the file that failed is the one the call was waiting for.
C23_FailedImportRolledBack ==
    [][ImportFailsNow =>
          LET call == loading[1]
              moduleId == call.files[call.next]
              rest == NextLoadable(call.files, call.next + 1)
          IN  /\ updateHistory'[Len(updateHistory')].moduleId = moduleId
              /\ moduleId \in DOMAIN moduleBackups
                    => /\ moduleCache' # <<>>
                       /\ moduleCache'[1][moduleId] = moduleBackups[moduleId]
              /\ notifications' = notifications + 1
              /\ reloads' = reloads
              /\ IF rest > Len(call.files)
                 THEN /\ loading' = <<>>
                      /\ events' = Append(events, "hmr:update")
                 ELSE /\ loading' # <<>>
                      /\ loading'[1].files = call.files
                      /\ loading'[1].next = rest]_vars

\* The import of o.js failed, the reference backed up for it is in the
\* cache, one notification is shown, and p.js, the next file of the same
\* update, was loaded afterwards.
C23_Witness ==
    /\ loading = <<>>
    /\ loadCalls = 1
    /\ updateHistory = <<[moduleId |-> FileJs, success |-> FALSE],
                         [moduleId |-> FileB, success |-> TRUE]>>
    /\ moduleCache # <<>>
    /\ FileJs \in DOMAIN moduleBackups
    /\ moduleCache[1][FileJs] = moduleBackups[FileJs]
    /\ notifications = 1
    /\ reloads = 0
    /\ events = <<"hmr:update">>

(***************************************************************************)
(* Properties of getRecentMetrics                                          *)
(***************************************************************************)
\* C27: getRecentMetrics(n) returns min(n, number of retained samples)
\* samples, never more than n, from the most recently closed to the
\* oldest, and every one of them is a sample closed by endUpdate.
C27_RecentMetrics ==
    recentCall # NoResult =>
        LET seen == recentCall[1].of
            n == recentCall[1].count
            got == recentCall[1].result
        IN  /\ Len(got) = (IF n < Len(seen) THEN n ELSE Len(seen))
            /\ Len(got) <= n
            /\ \A i \in DOMAIN got :
                  /\ got[i] = seen[Len(seen) - i + 1]
                  /\ got[i] \in Range(closedLog)

(***************************************************************************)
(* Properties of getAffectedModules on paths outside the graph             *)
(***************************************************************************)
\* The path was never added, or the module it was added for has been
\* removed.
NotRegistered(filePath) ==
    \/ filePath \notin DOMAIN fileToModule
    \/ fileToModule[filePath] \notin DOMAIN moduleToFile

\* C28: getAffectedModules for a path that was never added, or whose
\* module has been removed, returns the empty list and leaves the four
\* maps of the graph as they were.
C28_UnregisteredPathAffectsNothing ==
    [][/\ graphOp'.op = "getAffectedModules"
       /\ graphOp' # graphOp
       /\ NotRegistered(graphOp'.file)
       => /\ graphOp'.result = <<>>
          /\ UNCHANGED <<dependencies, dependents, moduleToFile,
                         fileToModule>>]_vars

(***************************************************************************)
(* Properties of WebSocketManager.close                                    *)
(***************************************************************************)
\* C29: after close() no interval timer is left and heartbeatTimer is
\* null, the connection set is empty and every socket that was in it is
\* closing or closed; a close() on a manager that has no timer and no
\* connection changes nothing of the manager, its sockets and its timers.
C29_CloseIsIdempotent ==
    [][closeCalls' = closeCalls + 1 =>
          /\ heartbeatTimer' = 0
          /\ intervals' = {}
          /\ connections' = {}
          /\ \A c \in connections : readyState'[c] \in {"CLOSING", "CLOSED"}
          /\ heartbeatTimer = 0 /\ connections = {}
                => UNCHANGED <<connections, readyState, heartbeatTimer,
                               intervals, nextIntervalId, broadcasts,
                               lastSend>>]_vars

\* close() has run twice after the only heartbeat timer was started, with
\* two sockets that were in the set.
C29_Witness ==
    /\ closeCalls = 2
    /\ readyState = <<"CLOSING", "CLOSING">>
    /\ nextIntervalId = 2
    /\ connections = {}
    /\ intervals = {}
    /\ heartbeatTimer = 0

(***************************************************************************)
(* Properties of the pending-timer registry                                *)
(***************************************************************************)
\* C31: rebuildTimers has an entry for a path exactly while a debounce
\* timer for that path is pending, the entry is the handle of that timer,
\* and no path has two pending timers; so the registry never holds the
\* handle of a timer that fired or was cancelled and is never larger than
\* the set of paths that are debouncing.
C31_RegistryTracksPendingTimers ==
    /\ DOMAIN rebuildTimers = {t.path : t \in liveTimers}
    /\ \A t \in liveTimers : rebuildTimers[t.path] = t.id
    /\ \A t1, t2 \in liveTimers : t1.path = t2.path => t1 = t2
    /\ Cardinality(DOMAIN rebuildTimers) <= Cardinality(liveTimers)

\* Three timers were set: one was replaced by a later event for its path,
\* one has fired, and the registry holds the one that is still pending.
C31_Witness ==
    /\ nextTimerId = 4
    /\ eventCount[PathA] = 2
    /\ eventCount[PathB] = 1
    /\ DOMAIN rebuildTimers = {PathA}
    /\ \E t \in liveTimers : t.path = PathA /\ t.id = rebuildTimers[PathA]
    /\ PendingFor(PathB) = {}

(***************************************************************************)
(* Properties of the update message's module fields                        *)
(***************************************************************************)
\* The module id the graph has for a path when the step starts, <<>> for
\* undefined.
GraphIdFor(path) ==
    IF path \in DOMAIN fileToModule THEN <<fileToModule[path]>> ELSE <<>>

\* C32 as stated: the message broadcast when a rebuild for a path resolves
\* has moduleId = getModuleId(path) and affectedModules =
\* getAffectedModules(path), whatever the classification of the path.
C32_ModuleFieldsFromGraph ==
    [][\A b \in SettledNow :
          ~RejectsNow =>
              /\ LastBroadcast.moduleId = GraphIdFor(b.path)
              /\ LastBroadcast.affectedModules =
                    GetAffectedModules(fileToModule, dependents, b.path)]_vars

\* C32 as amended: the message broadcast when a rebuild for a path
\* resolves has affectedModules = getAffectedModules(path) on the graph
\* of that moment, and moduleId = getModuleId(path) unless the path is
\* classified module-update, where moduleId is the path itself.
C32_ModuleFieldsUnlessModuleUpdate ==
    [][\A b \in SettledNow :
          ~RejectsNow =>
              /\ LastBroadcast.moduleId =
                    IF b.updateType = "module-update"
                    THEN <<b.path>> ELSE GraphIdFor(b.path)
              /\ LastBroadcast.affectedModules =
                    GetAffectedModules(fileToModule, dependents, b.path)]_vars

\* The page of /user/:id is registered as m1, which m2 depends on, and
\* the message for its resolved rebuild names m1 and both modules.
C32_Witness ==
    /\ Len(broadcasts) = 1
    /\ broadcasts[1].type = "component-update"
    /\ broadcasts[1].path = PathUserPage
    /\ broadcasts[1].moduleId = <<<<"m", "1">>>>
    /\ Range(broadcasts[1].affectedModules) = BuiltModules

(***************************************************************************)
(* Properties of the module backups                                        *)
(***************************************************************************)
\* C33: once the import of a module has resolved, or has rejected and its
\* rollback is done, moduleBackups has no entry for that module.
C33_BackupKeptForOneAttempt ==
    [][/\ loading # <<>>
       /\ Len(updateHistory') = Len(updateHistory) + 1
       => updateHistory'[Len(updateHistory')].moduleId
             \notin DOMAIN moduleBackups']_vars

(***************************************************************************)
(* Properties of route matching across the two sources of the route        *)
(***************************************************************************)
\* C34: isCurrentRoute gives the same answer when the current route comes
\* from the injected render-context URL as it gives for the same route taken
\* from the location path.
C34_SameResultFromEitherSource ==
    routeCall.result # NoResult =>
        routeCall.result[1] =
            IsCurrentRoute(<<>>, routeCall.current, routeCall.route)

(***************************************************************************)
(* Properties of the client's timers                                       *)
(***************************************************************************)
\* A connection is lost in this step: a socket closes, or connect() throws.
LossNow ==
    \/ ws # "null" /\ ws' = "null" /\ reloads' = reloads
    \/ connectCalls' > connectCalls /\ ws' = "null"

\* C35: the tab has at most one batch timer and at most one reconnect timer
\* pending, the pending one being the one the client holds the handle of; no
\* reconnect timer is pending while a socket exists; a reconnect timer is set
\* only by a connection loss, and a connect() made by a timer uses it up.
C35_OneTimerOfEachKind ==
    /\ [](/\ Cardinality(batchTimers) <= 1
          /\ batchTimers \subseteq {queueTimer}
          /\ Cardinality(clientTimers) <= 1
          /\ \A t \in clientTimers : t.id = reconnectTimer
          /\ ws # "null" => clientTimers = {})
    /\ [][/\ clientTimers' \ clientTimers # {} => LossNow
          /\ connectCalls' > connectCalls /\ viaTimer'
               => /\ clientTimers # {}
                  /\ clientTimers \cap clientTimers' = {}]_vars

C35_Witness ==
    /\ connectCalls >= 2
    /\ viaTimer
    /\ Cardinality(clientTimers) = 1
    /\ Cardinality(batchTimers) = 1
    /\ Len(updateQueue) = 2

(***************************************************************************)
(* Properties of what a merged batch does                                  *)
(***************************************************************************)
ReloadingTypes == {"component-update", "layout-update", "module-update"}

\* C36: when the batch the timer handles contains a component-update, a
\* layout-update or a module-update, handling the merged batch reloads the
\* page, whatever else is queued with it.
C36_ReloadSurvivesMerge ==
    [][(/\ BatchHandled
        /\ \E i \in DOMAIN updateQueue :
              updateQueue[i].type \in ReloadingTypes)
       => reloads' = reloads + 1]_vars

\* C37: when the batch the timer handles contains an update whose route
\* the tab is showing, the merged update is not dropped by route gating.
C37_MatchingUpdateNotGatedOut ==
    [][(/\ BatchHandled
        /\ \E i \in DOMAIN updateQueue :
              /\ updateQueue[i].type = "update"
              /\ Truthy(updateQueue[i].route)
              /\ TabIsCurrentRoute(updateQueue[i].route))
       => lastHandled'[1].outcome # "skipped"]_vars

(***************************************************************************)
(* Properties of the heartbeat and the greeting in the tab                 *)
(***************************************************************************)
\* What the server sends to keep the connection alive and to greet a tab.
KeepAliveTypes == {"ping", "connected"}

IsKeepAlive(message) == message.type \in KeepAliveTypes

\* C38: a batch made only of pings and greetings neither reloads the page
\* nor changes the document, and the merged message of a batch has the type,
\* path, files and route it has without the pings and greetings in it.
C38_KeepAliveChangesNothing ==
    /\ [](LET plain == SelectSeq(updateQueue, LAMBDA m : ~IsKeepAlive(m))
          IN  plain # <<>> =>
                LET merged == MergeUpdates(updateQueue)
                    without == MergeUpdates(plain)
                IN  /\ merged.type = without.type
                    /\ merged.path = without.path
                    /\ merged.files = without.files
                    /\ merged.route = without.route)
    /\ [][(/\ BatchHandled
           /\ \A i \in DOMAIN updateQueue : IsKeepAlive(updateQueue[i]))
          => /\ reloads' = reloads
             /\ styleUpdates' = styleUpdates
             /\ hotAccepts' = hotAccepts
             /\ events' = events
             /\ loadingModules' = loadingModules
             /\ recorded' = recorded]_vars

\* A css-update and a ping after it have been handled as one batch.
C38_Witness ==
    /\ inbound = 2
    /\ updateQueue = <<>>
    /\ lastInbound # NoResult
    /\ lastInbound[1].type = "ping"
    /\ lastHandled # NoResult
    /\ lastHandled[1].batch = 2
    /\ lastHandled[1].type = "css-update"
    /\ styleUpdates = 1

(***************************************************************************)
(* Properties of the queue over time                                       *)
(***************************************************************************)
\* C39: the queue is non-empty exactly when a batch timer is pending, and a
\* non-empty queue is eventually emptied with no batch timer left pending.
C39_QueueDrains ==
    /\ [](updateQueue # <<>> <=> batchTimers # {})
    /\ (updateQueue # <<>>) ~> (updateQueue = <<>> /\ batchTimers = {})

\* Two messages queued in one window have been handled together.
C39_Witness ==
    /\ updateQueue = <<>>
    /\ batchTimers = {}
    /\ inbound = 2
    /\ handledCount = 1
    /\ lastHandled[1].batch = 2

(***************************************************************************)
(* Properties of reconnection over time                                    *)
(***************************************************************************)
\* C40: after a connection loss that leaves fewer than 10 failed attempts in
\* a row, another connect() is eventually made; and while a reconnection is
\* pending or under way and the server accepts, the client eventually has
\* an open socket, unless the server stops accepting first.
C40_ReconnectsWhileAttemptsLeft ==
    /\ \A n \in 0..(MaxConnects - 1) :
          (/\ ws = "null"
           /\ lossStreak > 0
           /\ failedStreak < maxReconnectAttempts
           /\ connectCalls = n) ~> (connectCalls > n)
    /\ (/\ serverAccepts
        /\ clientTimers # {} \/ ws = "connecting"
        /\ connectCalls < MaxConnects) ~> (ws = "open" \/ ~serverAccepts)

\* A socket made by a reconnect timer is open, after an earlier timer's
\* attempt.
C40_Witness ==
    /\ ws = "open"
    /\ viaTimer
    /\ serverAccepts
    /\ connectCalls >= 3


====
